---- MODULE Spec2Model ----
(***************************************************************************)
(* A model of the usage aggregation engine of ccusage (src/data-loader.ts): *)
(* the loaders loadDailyUsageData, loadSessionData and                      *)
(* loadMonthlyUsageData as one state machine that reads the sorted files    *)
(* line by line, calculateWindowStatistics as a loop over its entries,      *)
(* groupWindowsByMonth on the windows it returns, and the functions they    *)
(* are built from as operators.  Spec is one call on records whose          *)
(* timestamps are dates; DateSpec is a call of a loader on records whose    *)
(* timestamp may be any string; TwoSpec is two calls of the loaders whose   *)
(* steps interleave; ProbeSpec is a call in which the timestamp probes of   *)
(* sortFilesByTimestamp start and complete in any order; IdSpec is a call   *)
(* on records whose ids may hold a colon; LossSpec is a call in which the   *)
(* pricing provider may fail.                                               *)
(*                                                                          *)
(* Conventions.  An optional value is the empty sequence (undefined) or a   *)
(* one-element sequence.  Strings that the code takes apart or compares by  *)
(* order (dates, versions, the since/until bounds) are sequences of         *)
(* one-character strings; strings that are only compared for equality or    *)
(* concatenated (ids, model names, path segments) are TLA+ strings.         *)
(* Money is counted in micro-dollars, so that sums are exact integers.      *)
(***************************************************************************)
EXTENDS Integers, Sequences, FiniteSets, TLC

None == << >>
Some(v) == <<v>>
OrElse(o, d) == IF o = None THEN d ELSE o[1]

(***************************************************************************)
(* Generic helpers: sums, ordered sets, stable sorting, grouping.           *)
(***************************************************************************)
RECURSIVE SumSeq(_)
SumSeq(s) == IF s = << >> THEN 0 ELSE s[1] + SumSeq(Tail(s))

RECURSIVE SortedSeq(_)
SortedSeq(S) ==
  IF S = {} THEN << >>
  ELSE LET m == CHOOSE x \in S : \A y \in S : x <= y
       IN <<m>> \o SortedSeq(S \ {m})

\* the values of one field of the items of a list
Pluck(seq, field) == [i \in DOMAIN seq |-> seq[i][field]]

\* Array.prototype.filter: keep[i] tells whether item i stays
RECURSIVE Keep(_, _)
Keep(seq, keep) ==
  IF seq = << >> THEN << >>
  ELSE (IF keep[1] THEN <<seq[1]>> ELSE << >>) \o Keep(Tail(seq), Tail(keep))

\* Array.prototype.sort with a consistent comparator: a stable sort.
\* before[i, j] is "the comparator puts item i before item j".
StableSort(seq, before) ==
  LET n == Len(seq)
      rank(i) == 1 + Cardinality({ j \in 1..n :
                       \/ before[j, i]
                       \/ (~before[i, j] /\ j < i) })
  IN [r \in 1..n |-> seq[CHOOSE i \in 1..n : rank(i) = r]]

\* es-toolkit groupBy followed by Object.entries: the groups in the order in
\* which their keys first appear, each with its items in input order.
\* keys[i] is the key of item i.
groupBy(seq, keys) ==
  LET firsts == SortedSeq({ i \in 1..Len(seq) :
                   \A j \in 1..(i - 1) : keys[j] # keys[i] })
  IN [g \in 1..Len(firsts) |->
        [key |-> keys[firsts[g]],
         entries |-> Keep(seq, [i \in DOMAIN seq |-> keys[i] = keys[firsts[g]]])]]

(***************************************************************************)
(* Character strings: decimal rendering, padding, parsing, and the          *)
(* code-unit order that the < and > of JavaScript strings use.              *)
(***************************************************************************)
Digits == <<"0", "1", "2", "3", "4", "5", "6", "7", "8", "9">>

RECURSIVE NumStr(_)
NumStr(n) ==
  IF n < 10 THEN <<Digits[n + 1]>>
  ELSE Append(NumStr(n \div 10), Digits[(n % 10) + 1])

padStart2(s) == IF Len(s) < 2 THEN <<"0">> \o s ELSE s

DigitVal(c) == (CHOOSE i \in 1..10 : Digits[i] = c) - 1

RECURSIVE ParseNum(_)
ParseNum(s) ==
  IF s = << >> THEN 0
  ELSE 10 * ParseNum(SubSeq(s, 1, Len(s) - 1)) + DigitVal(s[Len(s)])

\* The characters the model's strings are made of, in code-unit order.
CharOrder ==
  <<"+", "-", ".", "0", "1", "2", "3", "4", "5", "6", "7", "8", "9", ":", "N", "T", "Z",
    "a", "d", "e", "n", "o", "t">>
CharRank(c) == CHOOSE i \in 1..Len(CharOrder) : CharOrder[i] = c

RECURSIVE StrLess(_, _)
StrLess(a, b) ==
  IF b = << >> THEN FALSE
  ELSE IF a = << >> THEN TRUE
  ELSE IF a[1] = b[1] THEN StrLess(Tail(a), Tail(b))
  ELSE CharRank(a[1]) < CharRank(b[1])

substring(s, from0, to0) ==
  SubSeq(s, from0 + 1, IF to0 < Len(s) THEN to0 ELSE Len(s))

(***************************************************************************)
(* Dates.  A timestamp string is kept as its fields: the calendar date it   *)
(* spells, the second of the day it spells, and its zone designator ("Z",   *)
(* a numeric offset, or "" when the string has none and parses as local     *)
(* time).  tzv is the local zone's offset from UTC in seconds.  NotADate    *)
(* is a timestamp string that new Date cannot parse: its getTime() is NaN.  *)
(***************************************************************************)
NotADate == [date |-> <<0, 0, 0>>, tod |-> 0, zone |-> "not-a-date"]

\* !Number.isNaN(new Date(timestamp).getTime())
IsDate(ts) == ts # NotADate

\* the same for a date-only string, which the loaders have formatted
IsDateOnly(s) == \A i \in DOMAIN s : s[i] \notin {"N", "a"}

DaysFromCivil(y0, m, d) ==
  LET y == IF m <= 2 THEN y0 - 1 ELSE y0
      era == y \div 400
      yoe == y - era * 400
      mp == IF m > 2 THEN m - 3 ELSE m + 9
      doy == (153 * mp + 2) \div 5 + d - 1
      doe == yoe * 365 + yoe \div 4 - yoe \div 100 + doy
  IN era * 146097 + doe - 719468

CivilFromDays(z0) ==
  LET z == z0 + 719468
      era == z \div 146097
      doe == z - era * 146097
      yoe == (doe - doe \div 1460 + doe \div 36524 - doe \div 146096) \div 365
      doy == doe - (365 * yoe + yoe \div 4 - yoe \div 100)
      mp == (5 * doy + 2) \div 153
      d == doy - (153 * mp + 2) \div 5 + 1
      m == IF mp < 10 THEN mp + 3 ELSE mp - 9
      y == yoe + era * 400
  IN <<IF m <= 2 THEN y + 1 ELSE y, m, d>>

ZoneOffset(zone, tzv) ==
  CASE zone = "Z" -> 0
    [] zone = "" -> tzv
    [] zone = "+09:00" -> 32400
    [] zone = "-05:00" -> -18000

\* new Date(timestamp).getTime(), counted in seconds: the model's timestamps
\* are whole seconds, and milliseconds since 1970 do not fit TLC's integers
DateGetTime(ts, tzv) ==
  DaysFromCivil(ts.date[1], ts.date[2], ts.date[3]) * 86400 + ts.tod
    - ZoneOffset(ts.zone, tzv)

\* new Date('YYYY-MM-DD').getTime(), in seconds: a date-only string is UTC
\* midnight
DateOnlyGetTime(s) ==
  DaysFromCivil(ParseNum(SubSeq(s, 1, 4)), ParseNum(SubSeq(s, 6, 7)),
                ParseNum(SubSeq(s, 9, 10))) * 86400

\* the local calendar date; of an Invalid Date every part is NaN
formatDate(ts, tzv) ==
  IF ~IsDate(ts)
  THEN <<"N", "a", "N", "-", "N", "a", "N", "-", "N", "a", "N">>
  ELSE
  LET localSec == DateGetTime(ts, tzv) + tzv
      civ == CivilFromDays(localSec \div 86400)
      year == NumStr(civ[1])
      month == padStart2(NumStr(civ[2]))
      day == padStart2(NumStr(civ[3]))
  IN year \o <<"-">> \o month \o <<"-">> \o day

(***************************************************************************)
(* Records.  A line of a log file is what JSON.parse makes of it: json is   *)
(* FALSE for a line that does not parse, and every field may be missing.    *)
(***************************************************************************)
Usage(inp, out, cc, cr) ==
  [input_tokens |-> inp, output_tokens |-> out,
   cache_creation_input_tokens |-> cc, cache_read_input_tokens |-> cr]

Line(ts, ver, usage, model, id, req, cost) ==
  [json |-> TRUE, timestamp |-> ts, version |-> ver,
   message |-> Some([usage |-> usage, model |-> model, id |-> id]),
   costUSD |-> cost, requestId |-> req]

\* mutant: the four token fields are all optional
SchemaAccepts_TokensOptional(line) ==
  /\ line.json
  /\ line.timestamp # None
  /\ line.message # None
  /\ line.message[1].usage # None

\* v.safeParse(UsageDataSchema, parsed).success
SchemaAccepts(line) ==
  /\ line.json
  /\ line.timestamp # None
  /\ line.message # None
  /\ line.message[1].usage # None
  /\ line.message[1].usage[1].input_tokens # None
  /\ line.message[1].usage[1].output_tokens # None

\* result.output: the typed record of an accepted line
SchemaOutput(line) ==
  [timestamp |-> line.timestamp[1], version |-> line.version,
   message |-> [usage |-> line.message[1].usage[1],
                model |-> line.message[1].model,
                id |-> line.message[1].id],
   costUSD |-> line.costUSD, requestId |-> line.requestId]

(***************************************************************************)
(* Deduplication.                                                           *)
(***************************************************************************)
\* mutant: a record with one of the two ids still gets a key
createUniqueHash_Partial(data) ==
  IF data.message.id = None /\ data.requestId = None THEN None
  ELSE Some(OrElse(data.message.id, "") \o ":" \o OrElse(data.requestId, ""))

createUniqueHash(data) ==
  IF data.message.id = None \/ data.requestId = None THEN None
  ELSE Some(data.message.id[1] \o ":" \o data.requestId[1])

\* mutant: no entry is ever taken for a duplicate
isDuplicateEntry_Never(uniqueHash, hashes) == FALSE

isDuplicateEntry(uniqueHash, hashes) ==
  IF uniqueHash = None THEN FALSE ELSE uniqueHash[1] \in hashes

\* mutant: no key is ever remembered
markAsProcessed_Forget(uniqueHash, hashes) == hashes

markAsProcessed(uniqueHash, hashes) ==
  IF uniqueHash # None THEN hashes \cup {uniqueHash[1]} ELSE hashes

(***************************************************************************)
(* Cost.  The pricing provider is not part of the sources at hand; it is    *)
(* modelled from its contract: per-million-token rates by model name, and   *)
(* cost 0 for a model it does not know.  With rates in dollars per million  *)
(* tokens, tokens * rate is the cost in micro-dollars.                      *)
(***************************************************************************)
PricingTable ==
  [m \in {"claude-sonnet-4-20250514", "claude-opus-4-20250514"} |->
     IF m = "claude-sonnet-4-20250514"
     THEN [input |-> 3, output |-> 15, cacheWrite |-> 4, cacheRead |-> 1]
     ELSE [input |-> 15, output |-> 75, cacheWrite |-> 19, cacheRead |-> 2]]

calculateCostFromTokens(usage, model) ==
  IF model \notin DOMAIN PricingTable THEN 0
  ELSE LET p == PricingTable[model]
       IN usage.input_tokens[1] * p.input
          + usage.output_tokens[1] * p.output
          + OrElse(usage.cache_creation_input_tokens, 0) * p.cacheWrite
          + OrElse(usage.cache_read_input_tokens, 0) * p.cacheRead

\* mutant: calculate mode returns a costUSD that is present
calculateCostForEntry_PrefersCostUSD(data, mode) ==
  IF mode = "display"
  THEN [cost |-> OrElse(data.costUSD, 0), calls |-> 0]
  ELSE IF data.costUSD # None
  THEN [cost |-> data.costUSD[1], calls |-> 0]
  ELSE IF data.message.model # None
  THEN [cost |-> calculateCostFromTokens(data.message.usage, data.message.model[1]),
        calls |-> 1]
  ELSE [cost |-> 0, calls |-> 0]

\* mutant: auto mode takes a costUSD of 0 for a missing one
calculateCostForEntry_ZeroIsAbsent(data, mode) ==
  IF mode = "display"
  THEN [cost |-> OrElse(data.costUSD, 0), calls |-> 0]
  ELSE IF mode = "auto" /\ data.costUSD # None /\ data.costUSD # Some(0)
  THEN [cost |-> data.costUSD[1], calls |-> 0]
  ELSE IF data.message.model # None
  THEN [cost |-> calculateCostFromTokens(data.message.usage, data.message.model[1]),
        calls |-> 1]
  ELSE [cost |-> 0, calls |-> 0]

\* calculateCostForEntry: the cost, and how many times it asked the provider
calculateCostForEntry(data, mode) ==
  IF mode = "display"
  THEN [cost |-> OrElse(data.costUSD, 0), calls |-> 0]
  ELSE IF mode = "calculate"
  THEN IF data.message.model # None
       THEN [cost |-> calculateCostFromTokens(data.message.usage, data.message.model[1]),
             calls |-> 1]
       ELSE [cost |-> 0, calls |-> 0]
  ELSE \* mode = "auto"
       IF data.costUSD # None
       THEN [cost |-> data.costUSD[1], calls |-> 0]
       ELSE IF data.message.model # None
       THEN [cost |-> calculateCostFromTokens(data.message.usage, data.message.model[1]),
             calls |-> 1]
       ELSE [cost |-> 0, calls |-> 0]

\* const mode = options?.mode ?? 'auto'
ModeOf(options) == OrElse(options.mode, "auto")

\* mutant: a PricingFetcher is constructed in every mode
NeedsFetcher_Always(mode) == TRUE

\* using fetcher = mode === 'display' ? null : new PricingFetcher(...)
NeedsFetcher(mode) == mode # "display"

\* fetcher != null ? await calculateCostForEntry(data, mode, fetcher) : data.costUSD ?? 0
EntryCost(data, mode) ==
  IF NeedsFetcher(mode) THEN calculateCostForEntry(data, mode)
  ELSE [cost |-> OrElse(data.costUSD, 0), calls |-> 0]

(***************************************************************************)
(* Aggregation helpers.  An entry is a kept record with its resolved cost;  *)
(* a Map is the sequence of its entries in insertion order.                 *)
(***************************************************************************)
RECURSIVE Flatten(_)
Flatten(ss) == IF ss = << >> THEN << >> ELSE ss[1] \o Flatten(Tail(ss))

\* the keys of a Set or Map filled from seq, in insertion order
Unique(seq) == Pluck(groupBy(seq, seq), "key")

TokenStats(modelName, group) ==
  [modelName |-> modelName,
   inputTokens |-> SumSeq(Pluck(group, "inputTokens")),
   outputTokens |-> SumSeq(Pluck(group, "outputTokens")),
   cacheCreationTokens |-> SumSeq(Pluck(group, "cacheCreationTokens")),
   cacheReadTokens |-> SumSeq(Pluck(group, "cacheReadTokens")),
   cost |-> SumSeq(Pluck(group, "cost"))]

\* the per-model statistics of a list of named items, in the order in which
\* the models first appear; the synthetic model is left out
StatsByModel(named) ==
  LET kept == Keep(named, [i \in DOMAIN named |->
                             named[i].modelName # "<synthetic>"])
      groups == groupBy(kept, Pluck(kept, "modelName"))
  IN [g \in DOMAIN groups |-> TokenStats(groups[g].key, groups[g].entries)]

\* mutant: the synthetic model gets a breakdown of its own
aggregateByModel_KeepsSynthetic(entries) ==
  LET named == [i \in DOMAIN entries |->
        LET e == entries[i]
        IN [modelName |-> OrElse(e.model, "unknown"),
            inputTokens |-> OrElse(e.data.message.usage.input_tokens, 0),
            outputTokens |-> OrElse(e.data.message.usage.output_tokens, 0),
            cacheCreationTokens |->
              OrElse(e.data.message.usage.cache_creation_input_tokens, 0),
            cacheReadTokens |->
              OrElse(e.data.message.usage.cache_read_input_tokens, 0),
            cost |-> e.cost]]
      groups == groupBy(named, Pluck(named, "modelName"))
  IN [g \in DOMAIN groups |-> TokenStats(groups[g].key, groups[g].entries)]

aggregateByModel(entries) ==
  StatsByModel([i \in DOMAIN entries |->
    LET e == entries[i]
    IN [modelName |-> OrElse(e.model, "unknown"),
        inputTokens |-> OrElse(e.data.message.usage.input_tokens, 0),
        outputTokens |-> OrElse(e.data.message.usage.output_tokens, 0),
        cacheCreationTokens |->
          OrElse(e.data.message.usage.cache_creation_input_tokens, 0),
        cacheReadTokens |->
          OrElse(e.data.message.usage.cache_read_input_tokens, 0),
        cost |-> e.cost]])

aggregateModelBreakdowns(breakdowns) == StatsByModel(breakdowns)

\* .sort((a, b) => b.cost - a.cost)
createModelBreakdowns(modelAggregates) ==
  StableSort(modelAggregates,
             [a, b \in DOMAIN modelAggregates |->
                modelAggregates[b].cost - modelAggregates[a].cost < 0])

calculateTotals(entries) ==
  [inputTokens |->
     SumSeq([i \in DOMAIN entries |->
               OrElse(entries[i].data.message.usage.input_tokens, 0)]),
   outputTokens |->
     SumSeq([i \in DOMAIN entries |->
               OrElse(entries[i].data.message.usage.output_tokens, 0)]),
   cacheCreationTokens |->
     SumSeq([i \in DOMAIN entries |->
               OrElse(entries[i].data.message.usage.cache_creation_input_tokens, 0)]),
   cacheReadTokens |->
     SumSeq([i \in DOMAIN entries |->
               OrElse(entries[i].data.message.usage.cache_read_input_tokens, 0)]),
   cost |-> SumSeq(Pluck(entries, "cost")),
   totalCost |-> SumSeq(Pluck(entries, "cost"))]

extractUniqueModels(entries) ==
  LET named == Keep(entries, [i \in DOMAIN entries |->
                     entries[i].model # None /\ entries[i].model[1] # "<synthetic>"])
  IN Unique([i \in DOMAIN named |-> named[i].model[1]])

\* mutant: an item dated on since or on until is dropped
filterByDateRange_Exclusive(items, getDate, since, until) ==
  IF since = None /\ until = None THEN items
  ELSE Keep(items, [i \in DOMAIN items |->
         LET dateStr == SelectSeq(substring(getDate[i], 0, 10),
                                  LAMBDA c : c # "-")
         IN /\ ~(since # None /\ ~StrLess(since[1], dateStr))
            /\ ~(until # None /\ ~StrLess(dateStr, until[1]))])

\* getDate[i] is what the getDate callback returns for item i
filterByDateRange(items, getDate, since, until) ==
  IF since = None /\ until = None THEN items
  ELSE Keep(items, [i \in DOMAIN items |->
         LET dateStr == SelectSeq(substring(getDate[i], 0, 10),
                                  LAMBDA c : c # "-")
         IN /\ ~(since # None /\ StrLess(dateStr, since[1]))
            /\ ~(until # None /\ StrLess(until[1], dateStr))])

\* mutant: without an order the list is sorted ascending
sortByDate_DefaultAsc(items, getDate, order) ==
  IF OrElse(order, "asc") = "desc"
  THEN StableSort(items, [a, b \in DOMAIN items |->
         DateOnlyGetTime(getDate[a]) > DateOnlyGetTime(getDate[b])])
  ELSE StableSort(items, [a, b \in DOMAIN items |->
         DateOnlyGetTime(getDate[a]) < DateOnlyGetTime(getDate[b])])

\* fast-sort's sort(items).desc(f) / .asc(f): a new array, stably sorted;
\* getDate[i] is what the getDate callback returns for item i.  A key that
\* is NaN is neither less nor greater than any other.
sortByDate(items, getDate, order) ==
  IF OrElse(order, "desc") = "desc"
  THEN StableSort(items, [a, b \in DOMAIN items |->
         /\ IsDateOnly(getDate[a]) /\ IsDateOnly(getDate[b])
         /\ DateOnlyGetTime(getDate[a]) > DateOnlyGetTime(getDate[b])])
  ELSE StableSort(items, [a, b \in DOMAIN items |->
         /\ IsDateOnly(getDate[a]) /\ IsDateOnly(getDate[b])
         /\ DateOnlyGetTime(getDate[a]) < DateOnlyGetTime(getDate[b])])

(***************************************************************************)
(* File discovery and ordering.  A file is its path below the projects      *)
(* directory, as a sequence of segments, and its non-empty lines; readFile  *)
(* throws on a file that is not readable.                                   *)
(***************************************************************************)
getEarliestTimestamp(file, tzv) ==
  LET times == { DateGetTime(file.lines[i].timestamp[1], tzv) :
                   i \in { j \in 1..Len(file.lines) :
                             /\ file.lines[j].json
                             /\ file.lines[j].timestamp # None
                             /\ IsDate(file.lines[j].timestamp[1]) } }
  IN IF ~file.readable \/ times = {} THEN None
     ELSE Some(CHOOSE t \in times : \A u \in times : t <= u)

\* mutant: the files are ordered by their earliest timestamp alone, a file
\* without one counting as the earliest
sortFilesByTimestamp_NullFirst(files, tzv) ==
  LET filesWithTimestamps ==
        [i \in DOMAIN files |->
          [file |-> files[i], timestamp |-> getEarliestTimestamp(files[i], tzv)]]
      sorted == StableSort(filesWithTimestamps,
                  [a, b \in DOMAIN files |->
                    LET ta == filesWithTimestamps[a].timestamp
                        tb == filesWithTimestamps[b].timestamp
                    IN tb # None /\ (ta = None \/ ta[1] < tb[1])])
  IN Pluck(sorted, "file")

\* filesWithTimestamps.sort(...).map(item => item.file)
SortProbed(filesWithTimestamps) ==
  LET sorted == StableSort(filesWithTimestamps,
                  [a, b \in DOMAIN filesWithTimestamps |->
                    LET ta == filesWithTimestamps[a].timestamp
                        tb == filesWithTimestamps[b].timestamp
                    IN ta # None /\ (tb = None \/ ta[1] < tb[1])])
  IN Pluck(sorted, "file")

sortFilesByTimestamp(files, tzv) ==
  SortProbed([i \in DOMAIN files |->
               [file |-> files[i], timestamp |-> getEarliestTimestamp(files[i], tzv)]])

\* The probes of sortFilesByTimestamp, one per file, run at the same time:
\* started holds the files whose probe has begun, settled what the probes
\* have returned, in the order in which they completed.
NoProbes == [started |-> {}, settled |-> << >>]

\* mutant: the array holds the values in the order the probes completed
PromiseAll_Settled(n, settled) ==
  [k \in 1..n |-> [file |-> settled[k].file, timestamp |-> settled[k].timestamp]]

\* await Promise.all(files.map(...)): the values in the order of the files
PromiseAll(n, settled) ==
  [i \in 1..n |->
     LET k == CHOOSE k \in DOMAIN settled : settled[k].index = i
     IN [file |-> settled[k].file, timestamp |-> settled[k].timestamp]]

RECURSIVE join(_, _)
join(parts, sep) ==
  IF parts = << >> THEN ""
  ELSE IF Len(parts) = 1 THEN parts[1]
  ELSE parts[1] \o sep \o join(Tail(parts), sep)

\* parts[parts.length - 2] ?? 'unknown'
SessionIdOf(file) ==
  IF Len(file.path) >= 2 THEN file.path[Len(file.path) - 1] ELSE "unknown"

\* parts.slice(0, -2).join(path.sep), or the placeholder when that is empty
ProjectPathOf(file) ==
  LET joinedPath == join(SubSeq(file.path, 1, Len(file.path) - 2), "/")
  IN IF joinedPath # "" THEN joinedPath ELSE "Unknown Project"

(***************************************************************************)
(* The text of a timestamp, for the comparisons the code makes on the raw   *)
(* string.                                                                  *)
(***************************************************************************)
ZoneChars(zone) ==
  CASE zone = "Z" -> <<"Z">>
    [] zone = "" -> << >>
    [] zone = "+09:00" -> <<"+", "0", "9", ":", "0", "0">>
    [] zone = "-05:00" -> <<"-", "0", "5", ":", "0", "0">>

RawTimestamp(ts) ==
  IF ~IsDate(ts) THEN <<"n", "o", "t", "-", "a", "-", "d", "a", "t", "e">>
  ELSE
  NumStr(ts.date[1]) \o <<"-">> \o padStart2(NumStr(ts.date[2])) \o <<"-">>
    \o padStart2(NumStr(ts.date[3])) \o <<"T">>
    \o padStart2(NumStr(ts.tod \div 3600)) \o <<":">>
    \o padStart2(NumStr((ts.tod \div 60) % 60)) \o <<":">>
    \o padStart2(NumStr(ts.tod % 60)) \o ZoneChars(ts.zone)

(***************************************************************************)
(* The body of the loop over the lines of a file, in loadDailyUsageData     *)
(* (call = "daily") and loadSessionData (call = "session").  st holds the   *)
(* processed hashes, the entries collected so far and the number of calls   *)
(* made to the pricing provider.                                            *)
(***************************************************************************)
MakeEntry(call, data, file, cost, tzv) ==
  IF call = "session"
  THEN [data |-> data,
        sessionKey |-> ProjectPathOf(file) \o "/" \o SessionIdOf(file),
        sessionId |-> SessionIdOf(file),
        projectPath |-> ProjectPathOf(file),
        cost |-> cost,
        timestamp |-> data.timestamp,
        model |-> data.message.model]
  ELSE [data |-> data,
        date |-> formatDate(data.timestamp, tzv),
        cost |-> cost,
        model |-> data.message.model]

ProcessLine(call, st, line, file, mode, tzv) ==
  IF ~SchemaAccepts(line) THEN st
  ELSE LET data == SchemaOutput(line)
           uniqueHash == createUniqueHash(data)
           priced == EntryCost(data, mode)
       IN IF isDuplicateEntry(uniqueHash, st.hashes) THEN st
          ELSE [hashes |-> markAsProcessed(uniqueHash, st.hashes),
                entries |-> Append(st.entries,
                                   MakeEntry(call, data, file, priced.cost, tzv)),
                calls |-> st.calls + priced.calls]

RECURSIVE ProcessLines(_, _, _, _, _, _)
ProcessLines(call, st, file, i, mode, tzv) ==
  IF i > Len(file.lines) THEN st
  ELSE ProcessLines(call, ProcessLine(call, st, file.lines[i], file, mode, tzv),
                    file, i + 1, mode, tzv)

RECURSIVE ProcessFiles(_, _, _, _, _, _)
ProcessFiles(call, st, sorted, f, mode, tzv) ==
  IF f > Len(sorted) THEN st
  ELSE ProcessFiles(call, ProcessLines(call, st, sorted[f], 1, mode, tzv),
                    sorted, f + 1, mode, tzv)

EmptyAcc == [hashes |-> {}, entries |-> << >>, calls |-> 0]

(***************************************************************************)
(* Grouping, totals, filter and sort: the part of each loader after the     *)
(* loop.                                                                    *)
(***************************************************************************)
DailyResults(allEntries) ==
  LET groups == groupBy(allEntries, Pluck(allEntries, "date"))
  IN [g \in DOMAIN groups |->
       LET entries == groups[g].entries
           totals == calculateTotals(entries)
       IN [date |-> groups[g].key,
           inputTokens |-> totals.inputTokens,
           outputTokens |-> totals.outputTokens,
           cacheCreationTokens |-> totals.cacheCreationTokens,
           cacheReadTokens |-> totals.cacheReadTokens,
           cost |-> totals.cost,
           totalCost |-> totals.totalCost,
           modelsUsed |-> extractUniqueModels(entries),
           modelBreakdowns |-> createModelBreakdowns(aggregateByModel(entries))]]

FinishDaily(allEntries, options) ==
  LET results == DailyResults(allEntries)
      filtered == filterByDateRange(results, Pluck(results, "date"),
                                    options.since, options.until)
  IN sortByDate(filtered, Pluck(filtered, "date"), options.order)

\* mutant: the latest entry is the one processed last
LatestEntry_Last(entries, i, latest) == entries[Len(entries)]

\* entries.reduce((latest, current) =>
\*   current.timestamp > latest.timestamp ? current : latest)
RECURSIVE LatestEntry(_, _, _)
LatestEntry(entries, i, latest) ==
  IF i > Len(entries) THEN latest
  ELSE LatestEntry(entries, i + 1,
         IF StrLess(RawTimestamp(latest.timestamp), RawTimestamp(entries[i].timestamp))
         THEN entries[i] ELSE latest)

SessionResults(allEntries, tzv) ==
  LET groups == groupBy(allEntries, Pluck(allEntries, "sessionKey"))
  IN [g \in DOMAIN groups |->
       LET entries == groups[g].entries
           latestEntry == LatestEntry(entries, 2, entries[1])
           versioned == Keep(entries, [i \in DOMAIN entries |->
                                         entries[i].data.version # None])
           versionSet == Unique([i \in DOMAIN versioned |->
                                   versioned[i].data.version[1]])
           totals == calculateTotals(entries)
       IN [sessionId |-> latestEntry.sessionId,
           projectPath |-> latestEntry.projectPath,
           inputTokens |-> totals.inputTokens,
           outputTokens |-> totals.outputTokens,
           cacheCreationTokens |-> totals.cacheCreationTokens,
           cacheReadTokens |-> totals.cacheReadTokens,
           cost |-> totals.cost,
           totalCost |-> totals.totalCost,
           lastActivity |-> formatDate(latestEntry.timestamp, tzv),
           versions |-> StableSort(versionSet,
                          [a, b \in DOMAIN versionSet |->
                             StrLess(versionSet[a], versionSet[b])]),
           modelsUsed |-> extractUniqueModels(entries),
           modelBreakdowns |-> createModelBreakdowns(aggregateByModel(entries))]]

FinishSession(allEntries, options, tzv) ==
  LET results == SessionResults(allEntries, tzv)
      filtered == filterByDateRange(results, Pluck(results, "lastActivity"),
                                    options.since, options.until)
  IN sortByDate(filtered, Pluck(filtered, "lastActivity"), options.order)

\* mutant: a month holds its first day only
MonthlyArray_FirstDay(dailyData) ==
  LET groups == groupBy(dailyData, [i \in DOMAIN dailyData |->
                                      substring(dailyData[i].date, 0, 7)])
  IN    [g \in DOMAIN groups |->
          LET dailyEntries == SubSeq(groups[g].entries, 1, 1)
              models == Flatten(Pluck(dailyEntries, "modelsUsed"))
          IN [month |-> groups[g].key,
              inputTokens |-> SumSeq(Pluck(dailyEntries, "inputTokens")),
              outputTokens |-> SumSeq(Pluck(dailyEntries, "outputTokens")),
              cacheCreationTokens |->
                SumSeq(Pluck(dailyEntries, "cacheCreationTokens")),
              cacheReadTokens |-> SumSeq(Pluck(dailyEntries, "cacheReadTokens")),
              totalCost |-> SumSeq(Pluck(dailyEntries, "totalCost")),
              modelsUsed |->
                Unique(Keep(models, [i \in DOMAIN models |->
                                       models[i] # "<synthetic>"])),
              modelBreakdowns |->
                createModelBreakdowns(aggregateModelBreakdowns(
                  Flatten(Pluck(dailyEntries, "modelBreakdowns"))))]]

\* loadMonthlyUsageData: the months of the list loadDailyUsageData returned
MonthlyArray(dailyData) ==
  LET groups == groupBy(dailyData, [i \in DOMAIN dailyData |->
                                      substring(dailyData[i].date, 0, 7)])
  IN    [g \in DOMAIN groups |->
          LET dailyEntries == groups[g].entries
              models == Flatten(Pluck(dailyEntries, "modelsUsed"))
          IN [month |-> groups[g].key,
              inputTokens |-> SumSeq(Pluck(dailyEntries, "inputTokens")),
              outputTokens |-> SumSeq(Pluck(dailyEntries, "outputTokens")),
              cacheCreationTokens |->
                SumSeq(Pluck(dailyEntries, "cacheCreationTokens")),
              cacheReadTokens |-> SumSeq(Pluck(dailyEntries, "cacheReadTokens")),
              totalCost |-> SumSeq(Pluck(dailyEntries, "totalCost")),
              modelsUsed |->
                Unique(Keep(models, [i \in DOMAIN models |->
                                       models[i] # "<synthetic>"])),
              modelBreakdowns |->
                createModelBreakdowns(aggregateModelBreakdowns(
                  Flatten(Pluck(dailyEntries, "modelBreakdowns"))))]]

\* mutant: the months are filtered once more, by the first day of the month
MonthlyFromDaily_MonthStart(dailyData, options) ==
  LET monthlyArray == MonthlyArray(dailyData)
      filtered == filterByDateRange(monthlyArray,
                    [i \in DOMAIN monthlyArray |->
                       monthlyArray[i].month \o <<"-", "0", "1">>],
                    options.since, options.until)
  IN sortByDate(filtered,
                [i \in DOMAIN filtered |-> filtered[i].month \o <<"-", "0", "1">>],
                options.order)

\* loadMonthlyUsageData, from the list loadDailyUsageData(options) returned
MonthlyFromDaily(dailyData, options) ==
  LET monthlyArray == MonthlyArray(dailyData)
  IN sortByDate(monthlyArray,
                [i \in DOMAIN monthlyArray |->
                   monthlyArray[i].month \o <<"-", "0", "1">>],
                options.order)

(***************************************************************************)
(* The loaders as functions of their input: the files the glob returns (in  *)
(* the glob's order), the options and the local time zone.                  *)
(***************************************************************************)
\* what a call returns when it rejects: the error readFile has thrown
Rejected == <<[rejected |-> TRUE]>>

\* mutant: the fetcher is left as it is when the scope is left
Dispose_Never(fetcher) == fetcher

\* the using declaration: the fetcher is disposed of when the scope is left
Dispose(fetcher) == IF fetcher = "live" THEN "disposed" ELSE fetcher

CollectEntries(call, files, options, tzv) ==
  ProcessFiles(call, EmptyAcc, sortFilesByTimestamp(files, tzv), 1,
               ModeOf(options), tzv)

loadDailyUsageData(files, options, tzv) ==
  IF Len(files) = 0 THEN << >>
  ELSE IF \E f \in DOMAIN files : ~files[f].readable THEN Rejected
  ELSE FinishDaily(CollectEntries("daily", files, options, tzv).entries, options)

loadSessionData(files, options, tzv) ==
  IF Len(files) = 0 THEN << >>
  ELSE IF \E f \in DOMAIN files : ~files[f].readable THEN Rejected
  ELSE FinishSession(CollectEntries("session", files, options, tzv).entries,
                     options, tzv)

loadMonthlyUsageData(files, options, tzv) ==
  LET dailyData == loadDailyUsageData(files, options, tzv)
  IN IF dailyData = Rejected THEN Rejected
     ELSE MonthlyFromDaily(dailyData, options)

(***************************************************************************)
(* The 5-hour windows.  get5HourWindowId is not part of the sources at      *)
(* hand; it is modelled from its contract: the UTC date of the timestamp,   *)
(* then the start hour of the 5-hour window its UTC hour falls in.  A Map   *)
(* is the sequence of its values in insertion order.                        *)
(***************************************************************************)
get5HourWindowId(timestamp, tzv) ==
  LET t == DateGetTime(timestamp, tzv)
      civ == CivilFromDays(t \div 86400)
      hour == (t % 86400) \div 3600
      windowStart == (hour \div 5) * 5
  IN NumStr(civ[1]) \o <<"-">> \o padStart2(NumStr(civ[2])) \o <<"-">>
       \o padStart2(NumStr(civ[3])) \o <<"-">> \o padStart2(NumStr(windowStart))

\* the window a first entry opens
NewWindow(windowId, entry) ==
  [windowId |-> windowId,
   month |-> substring(RawTimestamp(entry.timestamp), 0, 7),
   startTimestamp |-> entry.timestamp,
   endTimestamp |-> entry.timestamp,
   messageCount |-> 0,
   sessionCount |-> 0,
   inputTokens |-> 0,
   outputTokens |-> 0,
   cacheCreationTokens |-> 0,
   cacheReadTokens |-> 0,
   totalCost |-> 0,
   duration |-> 0,
   modelsUsed |-> << >>]

\* mutant: the window keeps the timestamps of the entry that opened it
UpdateWindow_FirstExtent(window, entry) ==
  [window EXCEPT
     !.messageCount = @ + 1,
     !.inputTokens = @ + OrElse(entry.data.message.usage.input_tokens, 0),
     !.outputTokens = @ + OrElse(entry.data.message.usage.output_tokens, 0),
     !.cacheCreationTokens =
        @ + OrElse(entry.data.message.usage.cache_creation_input_tokens, 0),
     !.cacheReadTokens =
        @ + OrElse(entry.data.message.usage.cache_read_input_tokens, 0),
     !.totalCost = @ + entry.cost,
     !.modelsUsed =
        IF entry.model # None /\ \A k \in DOMAIN @ : @[k] # entry.model[1]
        THEN Append(@, entry.model[1]) ELSE @]

\* the window after one more entry
UpdateWindow(window, entry) ==
  [window EXCEPT
     !.messageCount = @ + 1,
     !.inputTokens = @ + OrElse(entry.data.message.usage.input_tokens, 0),
     !.outputTokens = @ + OrElse(entry.data.message.usage.output_tokens, 0),
     !.cacheCreationTokens =
        @ + OrElse(entry.data.message.usage.cache_creation_input_tokens, 0),
     !.cacheReadTokens =
        @ + OrElse(entry.data.message.usage.cache_read_input_tokens, 0),
     !.totalCost = @ + entry.cost,
     !.startTimestamp =
        IF StrLess(RawTimestamp(entry.timestamp), RawTimestamp(@))
        THEN entry.timestamp ELSE @,
     !.endTimestamp =
        IF StrLess(RawTimestamp(@), RawTimestamp(entry.timestamp))
        THEN entry.timestamp ELSE @,
     !.modelsUsed =
        IF entry.model # None /\ \A k \in DOMAIN @ : @[k] # entry.model[1]
        THEN Append(@, entry.model[1]) ELSE @]

\* mutant: every entry goes to the window that was opened first
WindowStep_FirstWindow(windowMap, entry, tzv) ==
  IF windowMap = << >>
  THEN <<UpdateWindow(NewWindow(get5HourWindowId(entry.timestamp, tzv), entry), entry)>>
  ELSE [windowMap EXCEPT ![1] = UpdateWindow(@, entry)]

\* one pass of the loop over the entries
WindowStep(windowMap, entry, tzv) ==
  LET windowId == get5HourWindowId(entry.timestamp, tzv)
      found == { k \in DOMAIN windowMap : windowMap[k].windowId = windowId }
  IN IF found = {}
     THEN Append(windowMap, UpdateWindow(NewWindow(windowId, entry), entry))
     ELSE LET k == CHOOSE k \in found : TRUE
          IN [windowMap EXCEPT ![k] = UpdateWindow(@, entry)]

\* mutant: the sessions are counted over the entries of every window
FinishWindow_AllSessions(window, entries, tzv) ==
  [window EXCEPT
     !.duration = (DateGetTime(window.endTimestamp, tzv)
                   - DateGetTime(window.startTimestamp, tzv)) * 1000,
     !.sessionCount =
        Cardinality({ entries[i].sessionKey : i \in DOMAIN entries })]

\* the second loop: the duration in milliseconds, and the sessions counted
\* over all entries of the window
FinishWindow(window, entries, tzv) ==
  [window EXCEPT
     !.duration = (DateGetTime(window.endTimestamp, tzv)
                   - DateGetTime(window.startTimestamp, tzv)) * 1000,
     !.sessionCount =
        Cardinality({ entries[i].sessionKey :
          i \in { j \in DOMAIN entries :
                    get5HourWindowId(entries[j].timestamp, tzv) = window.windowId } })]

RECURSIVE WindowSteps(_, _, _, _)
WindowSteps(windowMap, entries, i, tzv) ==
  IF i > Len(entries) THEN windowMap
  ELSE WindowSteps(WindowStep(windowMap, entries[i], tzv), entries, i + 1, tzv)

calculateWindowStatistics(entries, tzv) ==
  LET windowMap == WindowSteps(<< >>, entries, 1, tzv)
  IN [k \in DOMAIN windowMap |-> FinishWindow(windowMap[k], entries, tzv)]

(***************************************************************************)
(***************************************************************************)
(* groupWindowsByMonth.  utilizationPercent is the exact quotient           *)
(* windowCount * 100 / sessionLimit, kept as numerator and denominator.     *)
(***************************************************************************)
\* mutant: the utilization stops at 100 percent
SessionLimitFields_Capped(windowCount, sessionLimit) ==
  IF sessionLimit = None
  THEN [sessionLimit |-> None, remainingSessions |-> None, utilizationPercent |-> None]
  ELSE [sessionLimit |-> sessionLimit,
        remainingSessions |->
          Some(IF sessionLimit[1] - windowCount > 0
               THEN sessionLimit[1] - windowCount ELSE 0),
        utilizationPercent |->
          Some(IF windowCount > sessionLimit[1]
               THEN [num |-> 100, den |-> 1]
               ELSE [num |-> windowCount * 100, den |-> sessionLimit[1]])]

\* if (options?.sessionLimit != null) { ... }: the three optional fields
SessionLimitFields(windowCount, sessionLimit) ==
  IF sessionLimit = None
  THEN [sessionLimit |-> None, remainingSessions |-> None, utilizationPercent |-> None]
  ELSE [sessionLimit |-> sessionLimit,
        remainingSessions |->
          Some(IF sessionLimit[1] - windowCount > 0
               THEN sessionLimit[1] - windowCount ELSE 0),
        utilizationPercent |->
          Some([num |-> windowCount * 100, den |-> sessionLimit[1]])]

groupWindowsByMonth(windows, options) ==
  LET groups == groupBy(windows, Pluck(windows, "month"))
      monthlyMap ==
        [g \in DOMAIN groups |->
          LET ws == groups[g].entries
              limits == SessionLimitFields(Len(ws), options.sessionLimit)
          IN [month |-> groups[g].key,
              windowCount |-> Len(ws),
              totalCost |-> SumSeq(Pluck(ws, "totalCost")),
              totalTokens |->
                SumSeq([i \in DOMAIN ws |->
                          ws[i].inputTokens + ws[i].outputTokens
                          + ws[i].cacheCreationTokens + ws[i].cacheReadTokens]),
              sessionLimit |-> limits.sessionLimit,
              remainingSessions |-> limits.remainingSessions,
              utilizationPercent |-> limits.utilizationPercent,
              windows |-> StableSort(ws, [a, b \in DOMAIN ws |->
                                            StrLess(ws[b].windowId, ws[a].windowId)])]]
  IN StableSort(monthlyMap, [a, b \in DOMAIN monthlyMap |->
                               StrLess(monthlyMap[b].month, monthlyMap[a].month)])

(* One call of a loader, or of calculateWindowStatistics (followed, in a    *)
(* "windowMonths" call, by groupWindowsByMonth), step by step.              *)
(***************************************************************************)
VARIABLES
  tz,               \* the local zone's offset from UTC, in seconds
  other,            \* a second call of a loader, running at the same time
  probes,           \* the getEarliestTimestamp calls of sortFilesByTimestamp
  files,            \* what the glob returns, in the glob's order
  options,          \* the LoadOptions of the call
  call,             \* "daily", "session" or "monthly": the loader called
  pc,               \* where the call is
  sortedFiles,      \* the files in processing order
  fileIdx,          \* the file being processed
  lineIdx,          \* the line being processed
  fetcher,          \* "none", "live" or "disposed": the PricingFetcher
  pricingCalls,     \* calls made to the pricing provider
  processedHashes,  \* the identity keys seen
  allEntries,       \* the entries collected
  entryIdx,         \* the entry calculateWindowStatistics is at
  windowMap,        \* the windows it has opened, in insertion order
  result            \* what the call returns

vars == <<tz, other, probes, files, options, call, pc, sortedFiles, fileIdx, lineIdx, fetcher,
          pricingCalls, processedHashes, allEntries, entryIdx, windowMap, result>>

\* the loader whose loop runs: loadMonthlyUsageData calls loadDailyUsageData
LoaderOf(c) == IF c = "session" THEN "session" ELSE "daily"

\* The inputs explored: the files of a run, the lines they hold between
\* them, and the entries given to calculateWindowStatistics.
MaxFiles == 2
MaxLines == 3
MaxEntries == 3

SeqsUpTo(S, n) == UNION { [1..k -> S] : k \in 0..n }

\* file i lies in session directory s1 (odd i) or s2 (even i) of project proj
PathOf(i) ==
  <<"proj", IF i % 2 = 1 THEN "s1" ELSE "s2", "f" \o ToString(i) \o ".jsonl">>

\* the ways to cut a run of len lines into n files: cut[i] is where file i ends
Cuts(n, len) ==
  { cut \in [1..n -> 0..len] :
      /\ cut[n] = len
      /\ \A i \in 1..(n - 1) : cut[i] <= cut[i + 1] }

\* what the glob can return: up to maxFiles files that hold up to maxLines
\* lines of the pool between them
FileLists(pool, maxFiles, maxLines) ==
  {<< >>} \cup
  UNION { UNION { { [i \in 1..n |->
                      [path |-> PathOf(i), readable |-> TRUE,
                       lines |-> SubSeq(ls, (IF i = 1 THEN 0 ELSE cut[i - 1]) + 1,
                                        cut[i])]] :
                    cut \in Cuts(n, Len(ls)) } :
                  ls \in SeqsUpTo(pool, maxLines) } :
          n \in 1..maxFiles }

Ts(y, m, d, tod, zone) == [date |-> <<y, m, d>>, tod |-> tod, zone |-> zone]

Sonnet == "claude-sonnet-4-20250514"
Opus == "claude-opus-4-20250514"

\* the options of a call, all omitted: those of LoadOptions and, for
\* groupWindowsByMonth, sessionLimit
NoOptions ==
  [mode |-> None, order |-> None, since |-> None, until |-> None,
   sessionLimit |-> None]

\* the session limits given to groupWindowsByMonth
SessionLimits == {1, 2}

\* Records that differ in their identity keys: two with the same key and
\* different content, one without requestId, one without message.id, and one
\* with another key.
KeyPool ==
  { Line(Some(Ts(2024, 1, 10, 36000, "Z")), None, Some(Usage(Some(1), Some(1), None, None)),
         Some(Sonnet), Some("m1"), Some("r1"), Some(5)),
    Line(Some(Ts(2024, 1, 15, 36000, "Z")), None, Some(Usage(Some(2), Some(0), None, None)),
         Some(Opus), Some("m1"), Some("r1"), Some(7)),
    Line(Some(Ts(2024, 1, 15, 36000, "Z")), None, Some(Usage(Some(4), Some(1), None, None)),
         Some(Sonnet), Some("m1"), None, Some(3)),
    Line(Some(Ts(2024, 1, 10, 36000, "Z")), None, Some(Usage(Some(8), Some(1), None, None)),
         None, None, Some("r1"), Some(2)),
    Line(Some(Ts(2024, 1, 10, 36000, "Z")), None, Some(Usage(Some(16), Some(1), None, None)),
         None, Some("m2"), Some("r1"), Some(1)) }

\* Records that differ in costUSD (absent, 0, a value) and in the model
\* (absent, priced, not priced).
CostPool ==
  { Line(Some(Ts(2024, 1, 10, 36000, "Z")), None,
         Some(Usage(Some(1000), Some(500), Some(200), None)), model, None, None, cost) :
      model \in {None, Some(Sonnet), Some("unknown-model")},
      cost \in {None, Some(0), Some(50000)} }

DatedLine(ts) ==
  Line(Some(ts), Some(<<"1", ".", "0">>), Some(Usage(Some(100), Some(50), None, None)),
       None, None, None, Some(10000))

\* Records of three months, across a year boundary.
SortPool ==
  { DatedLine(Ts(2023, 12, 31, 3600, "Z")),
    DatedLine(Ts(2024, 1, 10, 36000, "Z")),
    DatedLine(Ts(2024, 2, 1, 82800, "")) }

\* Records dated the day before since, on since, on until, the day after,
\* and on the first day of the next month.
FilterPool ==
  { DatedLine(Ts(2024, 1, 9, 36000, "Z")),
    DatedLine(Ts(2024, 1, 10, 36000, "Z")),
    DatedLine(Ts(2024, 1, 25, 36000, "Z")),
    DatedLine(Ts(2024, 1, 26, 36000, "Z")),
    DatedLine(Ts(2024, 2, 1, 36000, "Z")) }

Since == <<"2", "0", "2", "4", "0", "1", "1", "0">>
Until == <<"2", "0", "2", "4", "0", "1", "2", "5">>

\* Entries for calculateWindowStatistics, as loadSessionData collects them:
\* one second before and exactly on a window boundary, at the first and the
\* last second of a day, one whose timestamp carries a zone offset that
\* puts it on another UTC day, one of the synthetic model with other token
\* counts, and one written with a zone offset at the first instant of the
\* day of the others.
WindowTimes ==
  { Ts(2025, 6, 16, 17999, "Z"), Ts(2025, 6, 16, 18000, "Z"),
    Ts(2025, 6, 16, 0, "Z"), Ts(2025, 6, 16, 86399, "Z"),
    Ts(2025, 7, 1, 7200, "+09:00"),
    Ts(2025, 6, 16, 3600, "Z"), Ts(2025, 6, 16, 32400, "+09:00") }

WindowEntryOf(ts, i) ==
  LET data == SchemaOutput(
                IF ts.tod = 3600
                THEN Line(Some(ts), None, Some(Usage(Some(7), Some(3), Some(2), Some(1))),
                          Some("<synthetic>"), None, None, Some(700))
                ELSE
                Line(Some(ts), None, Some(Usage(Some(100), Some(50), None, None)),
                     IF ts.tod % 2 = 0 THEN Some(Sonnet) ELSE Some(Opus),
                     None, None, Some(10000)))
      file == [path |-> PathOf(i), lines |-> << >>]
  IN MakeEntry("session", data, file, EntryCost(data, "auto").cost, 0)

WindowPool ==
  { WindowEntryOf(ts, 1) : ts \in WindowTimes }
    \cup { WindowEntryOf(Ts(2025, 6, 16, 18000, "Z"), 2) }

\* Records of the synthetic model, of a priced model and without a model,
\* on two days.
ModelPool ==
  { Line(Some(Ts(2024, 1, 10, 36000, "Z")), None,
         Some(Usage(Some(1), Some(10), Some(100), Some(1000))),
         Some("<synthetic>"), None, None, Some(7)),
    Line(Some(Ts(2024, 1, 10, 36000, "Z")), None,
         Some(Usage(Some(2), Some(20), Some(200), Some(2000))),
         Some(Sonnet), None, None, Some(30)),
    Line(Some(Ts(2024, 1, 10, 36000, "Z")), None,
         Some(Usage(Some(4), Some(40), None, None)),
         None, None, None, Some(500)),
    Line(Some(Ts(2024, 2, 1, 36000, "Z")), None,
         Some(Usage(Some(8), Some(80), None, Some(8000))),
         Some("<synthetic>"), None, None, None) }

\* a line that JSON.parse rejects
NotJson == [Line(None, None, None, None, None, None, None) EXCEPT !.json = FALSE]

\* Two records with the same key, and three lines the loaders drop: one that
\* is not JSON, one without timestamp, and one with an early timestamp and
\* a message without usage.
ErrorPool ==
  { Line(Some(Ts(2024, 1, 10, 36000, "Z")), None, Some(Usage(Some(1), Some(1), None, None)),
         Some(Sonnet), Some("m1"), Some("r1"), Some(5)),
    Line(Some(Ts(2024, 1, 15, 36000, "Z")), None, Some(Usage(Some(2), Some(0), None, None)),
         Some(Opus), Some("m1"), Some("r1"), Some(7)),
    NotJson,
    Line(None, None, Some(Usage(Some(4), Some(1), None, None)),
         Some(Sonnet), Some("m2"), Some("r2"), Some(3)),
    Line(Some(Ts(2024, 1, 1, 36000, "Z")), None, None,
         Some(Sonnet), Some("m3"), Some("r3"), Some(2)) }

\* Records of one day that have a usage object in which any of the four
\* token fields may be missing.
TokenPool ==
  { Line(Some(Ts(2024, 1, 10, 36000, "Z")), None, Some(Usage(inp, out, cc, cr)),
         Some(Sonnet), None, None, Some(100)) :
      inp \in {None, Some(8)}, out \in {None, Some(4)},
      cc \in {None, Some(2)}, cr \in {None, Some(1)} }

\* Records of one day whose ids hold a colon: the first two differ in both
\* ids, and the third shares no id pair with them either.
IdPool ==
  { Line(Some(Ts(2024, 1, 10, 36000, "Z")), None, Some(Usage(Some(1), Some(1), None, None)),
         Some(Sonnet), Some("a:b"), Some("c"), Some(5)),
    Line(Some(Ts(2024, 1, 10, 36000, "Z")), None, Some(Usage(Some(2), Some(1), None, None)),
         Some(Sonnet), Some("a"), Some("b:c"), Some(7)),
    Line(Some(Ts(2024, 1, 10, 36000, "Z")), None, Some(Usage(Some(4), Some(1), None, None)),
         Some(Sonnet), Some("a"), Some("c"), Some(3)) }

\* Records of one day that the pricing provider is asked about unless they
\* carry a costUSD: two of one identity key, the first without a costUSD,
\* and one without a key.
LossPool ==
  { Line(Some(Ts(2024, 1, 10, 36000, "Z")), None, Some(Usage(Some(1), Some(1), None, None)),
         Some(Sonnet), Some("m1"), Some("r1"), None),
    Line(Some(Ts(2024, 1, 10, 36000, "Z")), None, Some(Usage(Some(2), Some(1), None, None)),
         Some(Sonnet), Some("m1"), Some("r1"), Some(7)),
    Line(Some(Ts(2024, 1, 10, 36000, "Z")), None, Some(Usage(Some(4), Some(1), None, None)),
         Some(Opus), None, None, None) }

\* Two records of different days.
ReadPool ==
  { DatedLine(Ts(2024, 1, 10, 36000, "Z")), DatedLine(Ts(2024, 1, 15, 36000, "Z")) }

\* the lists of files of which at least one cannot be read
UnreadableLists(pool, maxFiles, maxLines) ==
  UNION { { [f \in DOMAIN fs |-> [fs[f] EXCEPT !.readable = f \notin U]] :
              U \in (SUBSET DOMAIN fs) \ {{}} } :
          fs \in FileLists(pool, maxFiles, maxLines) }

\* Paths below the projects directory: a file in the directory itself, in a
\* directory of it, and deeper; two directories carry the names the loader
\* uses as placeholders, and two files lie in the same directory.
PathPool ==
  { <<"f.jsonl">>,
    <<"unknown", "g.jsonl">>,
    <<"s1", "h.jsonl">>,
    <<"Unknown Project", "s1", "i.jsonl">>,
    <<"project2", "s1", "j.jsonl">>,
    <<"project1", "subfolder", "session123", "chat.jsonl">>,
    <<"project1", "subfolder", "session123", "chat2.jsonl">> }

\* up to maxFiles files of different paths, each holding one record
PathLists(pool, maxFiles) ==
  { fs \in UNION { [1..n -> [path : pool, readable : {TRUE},
                             lines : {<<DatedLine(Ts(2024, 1, 10, 36000, "Z"))>>}]] :
                   n \in 1..maxFiles } :
      \A i, j \in DOMAIN fs : i # j => fs[i].path # fs[j].path }

\* A record whose timestamp is a date, and one whose timestamp is a string
\* that is not a date.
DatePool ==
  { DatedLine(Ts(2024, 1, 10, 36000, "Z")), DatedLine(NotADate) }

(***************************************************************************)
(* A second call.  Its state is one record of the same parts; CallStep is   *)
(* the step it takes next, as the actions below take it for the first call. *)
(* foreign is the processedHashes of the other call running.                *)
(***************************************************************************)
\* mutant: the set of processed hashes is shared by the calls
HashesOfCall_Shared(own, foreign) == own \cup foreign

\* const processedHashes = new Set<string>(): the set a call consults is
\* the one it has created
HashesOfCall(own, foreign) == own

NewCall(c, fs, opts) ==
  [call |-> c, files |-> fs, options |-> opts, pc |-> "glob",
   sortedFiles |-> << >>, fileIdx |-> 0, lineIdx |-> 0, fetcher |-> "none",
   pricingCalls |-> 0, processedHashes |-> {}, allEntries |-> << >>,
   result |-> << >>]

\* no second call
NoCall == [NewCall("daily", << >>, NoOptions) EXCEPT !.pc = "none"]

CallStep(s, tzv, foreign) ==
  CASE s.pc = "glob" ->
         IF Len(s.files) = 0 THEN [s EXCEPT !.pc = "done", !.result = << >>]
         ELSE [s EXCEPT !.pc = "sort"]
    [] s.pc = "sort" ->
         [s EXCEPT !.sortedFiles = sortFilesByTimestamp(s.files, tzv),
                   !.pc = "fetcher"]
    [] s.pc = "fetcher" ->
         [s EXCEPT !.fetcher = IF NeedsFetcher(ModeOf(s.options)) THEN "live"
                               ELSE "none",
                   !.processedHashes = {},
                   !.allEntries = << >>,
                   !.fileIdx = 1,
                   !.pc = "read"]
    [] s.pc = "read" /\ s.fileIdx > Len(s.sortedFiles) ->
         [s EXCEPT !.result = IF s.call = "session"
                              THEN FinishSession(s.allEntries, s.options, tzv)
                              ELSE FinishDaily(s.allEntries, s.options),
                   !.fetcher = Dispose(@),
                   !.pc = "done"]
    [] s.pc = "read" /\ s.fileIdx <= Len(s.sortedFiles) ->
         IF ~s.sortedFiles[s.fileIdx].readable
         THEN [s EXCEPT !.pc = "failed", !.result = Rejected,
                        !.fetcher = Dispose(@)]
         ELSE IF Len(s.sortedFiles[s.fileIdx].lines) = 0
         THEN [s EXCEPT !.fileIdx = @ + 1]
         ELSE [s EXCEPT !.lineIdx = 1, !.pc = "line"]
    [] s.pc = "line" ->
         LET file == s.sortedFiles[s.fileIdx]
             st == ProcessLine(s.call,
                               [hashes |-> HashesOfCall(s.processedHashes, foreign),
                                entries |-> s.allEntries,
                                calls |-> s.pricingCalls],
                               file.lines[s.lineIdx], file, ModeOf(s.options), tzv)
             after == [s EXCEPT !.processedHashes = st.hashes,
                                !.allEntries = st.entries,
                                !.pricingCalls = st.calls]
         IN IF s.lineIdx < Len(file.lines)
            THEN [after EXCEPT !.lineIdx = @ + 1]
            ELSE [after EXCEPT !.fileIdx = @ + 1, !.pc = "read"]

\* Two records of different content with the same identity key.
TwoPool ==
  { Line(Some(Ts(2024, 1, 10, 36000, "Z")), None, Some(Usage(Some(1), Some(1), None, None)),
         Some(Sonnet), Some("m1"), Some("r1"), Some(5)),
    Line(Some(Ts(2024, 1, 15, 36000, "Z")), None, Some(Usage(Some(2), Some(0), None, None)),
         Some(Opus), Some("m1"), Some("r1"), Some(7)) }

InitInputs ==
  \/ /\ files \in FileLists(KeyPool, MaxFiles, MaxLines)
     /\ options = NoOptions
     /\ call \in {"daily", "session"}
     /\ tz = 0
  \/ /\ files \in FileLists(CostPool, 1, MaxLines - 1)
     /\ options \in { [NoOptions EXCEPT !.mode = m] :
                        m \in {None, Some("auto"), Some("calculate"), Some("display")} }
     /\ call \in {"daily", "session"}
     /\ tz = 0
  \/ /\ files \in FileLists(ErrorPool, MaxFiles, MaxLines)
     /\ options = NoOptions
     /\ call \in {"daily", "session"}
     /\ tz = 0
  \/ /\ files \in UnreadableLists(ReadPool, MaxFiles, MaxLines - 1)
     /\ options \in { [NoOptions EXCEPT !.mode = m] :
                        m \in {None, Some("calculate"), Some("display")} }
     /\ call \in {"daily", "session", "monthly"}
     /\ tz = 0
  \/ /\ files \in PathLists(PathPool, MaxFiles)
     /\ options = NoOptions
     /\ call = "session"
     /\ tz = 0
  \/ /\ files \in FileLists(ModelPool, MaxFiles, MaxLines)
     /\ options = NoOptions
     /\ call \in {"daily", "session", "monthly"}
     /\ tz = 0
  \/ /\ files \in FileLists(TokenPool, 1, MaxLines - 1)
     /\ options = NoOptions
     /\ call \in {"daily", "session", "monthly"}
     /\ tz = 0
  \/ /\ files \in FileLists(SortPool, MaxFiles, MaxLines)
     /\ options \in { [NoOptions EXCEPT !.order = o] :
                        o \in {None, Some("asc"), Some("desc")} }
     /\ call \in {"daily", "session", "monthly"}
     /\ tz \in {0, 32400}
  \/ /\ files \in FileLists(FilterPool, MaxFiles, MaxLines)
     /\ options \in { [NoOptions EXCEPT !.since = su[1], !.until = su[2]] :
                        su \in { <<Some(Since), None>>, <<None, Some(Until)>>,
                                 <<Some(Since), Some(Until)>> } }
     /\ call \in {"daily", "session", "monthly"}
     /\ tz = 0

\* a call of a loader begins at the glob; a call of
\* calculateWindowStatistics begins with its entries and an empty Map
Init ==
  /\ \/ /\ InitInputs
        /\ pc = "glob"
        /\ allEntries = << >>
     \/ /\ \/ /\ call = "window"
              /\ options = NoOptions
           \/ /\ call = "windowMonths"
              /\ options \in { [NoOptions EXCEPT !.sessionLimit = l] :
                                 l \in {None} \cup { Some(n) : n \in SessionLimits } }
        /\ pc = "window"
        /\ allEntries \in SeqsUpTo(WindowPool, MaxEntries)
        /\ files = << >>
        /\ tz = 0
  /\ sortedFiles = << >>
  /\ fileIdx = 0
  /\ lineIdx = 0
  /\ fetcher = "none"
  /\ pricingCalls = 0
  /\ processedHashes = {}
  /\ entryIdx = 1
  /\ windowMap = << >>
  /\ result = << >>
  /\ other = NoCall
  /\ probes = NoProbes

\* the glob, and the early return when it finds no file
Glob ==
  /\ pc = "glob"
  /\ IF Len(files) = 0
     THEN /\ pc' = (IF call = "monthly" THEN "monthly" ELSE "done")
          /\ result' = << >>
     ELSE /\ pc' = "sort"
          /\ result' = result
  /\ UNCHANGED <<tz, other, probes, files, options, call, entryIdx, windowMap, sortedFiles, fileIdx, lineIdx, fetcher,
                 pricingCalls, processedHashes, allEntries>>

SortFiles ==
  /\ pc = "sort"
  /\ sortedFiles' = sortFilesByTimestamp(files, tz)
  /\ pc' = "fetcher"
  /\ UNCHANGED <<tz, other, probes, files, options, call, entryIdx, windowMap, fileIdx, lineIdx, fetcher, pricingCalls,
                 processedHashes, allEntries, result>>

\* the using declaration, and the empty set and list before the loop
CreateFetcher ==
  /\ pc = "fetcher"
  /\ fetcher' = (IF NeedsFetcher(ModeOf(options)) THEN "live" ELSE "none")
  /\ processedHashes' = {}
  /\ allEntries' = << >>
  /\ fileIdx' = 1
  /\ pc' = "read"
  /\ UNCHANGED <<tz, other, probes, files, options, call, entryIdx, windowMap, sortedFiles, lineIdx, pricingCalls, result>>

\* readFile and the split into lines; a file without lines is done at once.
\* readFile is outside the try of the loop over the lines: when it throws,
\* the call rejects, and the scope of the using declaration is left.
ReadFile ==
  /\ pc = "read"
  /\ fileIdx <= Len(sortedFiles)
  /\ IF ~sortedFiles[fileIdx].readable
     THEN /\ pc' = "failed"
          /\ result' = Rejected
          /\ fetcher' = Dispose(fetcher)
          /\ UNCHANGED <<fileIdx, lineIdx>>
     ELSE /\ IF Len(sortedFiles[fileIdx].lines) = 0
             THEN /\ fileIdx' = fileIdx + 1
                  /\ UNCHANGED <<pc, lineIdx>>
             ELSE /\ lineIdx' = 1
                  /\ pc' = "line"
                  /\ UNCHANGED fileIdx
          /\ UNCHANGED <<fetcher, result>>
  /\ UNCHANGED <<tz, other, probes, files, options, call, entryIdx, windowMap, sortedFiles, pricingCalls,
                 processedHashes, allEntries>>

\* one pass of the loop over the lines of the current file
DoLine ==
  /\ pc = "line"
  /\ LET file == sortedFiles[fileIdx]
         st == ProcessLine(LoaderOf(call),
                           [hashes |-> HashesOfCall(processedHashes,
                                                    other.processedHashes),
                            entries |-> allEntries,
                            calls |-> pricingCalls],
                           file.lines[lineIdx], file, ModeOf(options), tz)
     IN /\ processedHashes' = st.hashes
        /\ allEntries' = st.entries
        /\ pricingCalls' = st.calls
        /\ IF lineIdx < Len(file.lines)
           THEN /\ lineIdx' = lineIdx + 1
                /\ UNCHANGED <<pc, fileIdx>>
           ELSE /\ fileIdx' = fileIdx + 1
                /\ pc' = "read"
                /\ UNCHANGED lineIdx
  /\ UNCHANGED <<tz, other, probes, files, options, call, entryIdx, windowMap, sortedFiles, fetcher, result>>

\* after the loop: group, total, filter, sort, and dispose of the fetcher
Aggregate ==
  /\ pc = "read"
  /\ fileIdx > Len(sortedFiles)
  /\ result' = (IF LoaderOf(call) = "session"
                THEN FinishSession(allEntries, options, tz)
                ELSE FinishDaily(allEntries, options))
  /\ fetcher' = Dispose(fetcher)
  /\ pc' = (IF call = "monthly" THEN "monthly" ELSE "done")
  /\ UNCHANGED <<tz, other, probes, files, options, call, entryIdx, windowMap, sortedFiles, fileIdx, lineIdx,
                 pricingCalls, processedHashes, allEntries>>

\* loadMonthlyUsageData, once loadDailyUsageData has returned
Monthly ==
  /\ pc = "monthly"
  /\ result' = MonthlyFromDaily(result, options)
  /\ pc' = "done"
  /\ UNCHANGED <<tz, other, probes, files, options, call, entryIdx, windowMap, sortedFiles, fileIdx, lineIdx, fetcher,
                 pricingCalls, processedHashes, allEntries>>

\* calculateWindowStatistics: one pass of the loop over the entries
WindowEntry ==
  /\ pc = "window"
  /\ entryIdx <= Len(allEntries)
  /\ windowMap' = WindowStep(windowMap, allEntries[entryIdx], tz)
  /\ entryIdx' = entryIdx + 1
  /\ UNCHANGED <<tz, other, probes, files, options, call, pc, sortedFiles, fileIdx, lineIdx, fetcher,
                 pricingCalls, processedHashes, allEntries, result>>

\* calculateWindowStatistics: durations and session counts, and the return
WindowFinish ==
  /\ pc = "window"
  /\ entryIdx > Len(allEntries)
  /\ windowMap' = [k \in DOMAIN windowMap |->
                     FinishWindow(windowMap[k], allEntries, tz)]
  /\ result' = windowMap'
  /\ pc' = (IF call = "windowMonths" THEN "group" ELSE "done")
  /\ UNCHANGED <<tz, other, probes, files, options, call, entryIdx, sortedFiles, fileIdx, lineIdx,
                 fetcher, pricingCalls, processedHashes, allEntries>>

\* groupWindowsByMonth, on the windows calculateWindowStatistics returned
GroupWindows ==
  /\ pc = "group"
  /\ result' = groupWindowsByMonth(result, options)
  /\ pc' = "done"
  /\ UNCHANGED <<tz, other, probes, files, options, call, entryIdx, windowMap, sortedFiles, fileIdx,
                 lineIdx, fetcher, pricingCalls, processedHashes, allEntries>>

Next ==
  \/ Glob \/ SortFiles \/ CreateFetcher \/ ReadFile \/ DoLine \/ Aggregate \/ Monthly
  \/ WindowEntry \/ WindowFinish \/ GroupWindows

Spec == Init /\ [][Next]_vars

\* The loaders on records whose timestamp need not be a date.
DateInit ==
  /\ files \in FileLists(DatePool, MaxFiles, MaxLines)
  /\ options = NoOptions
  /\ call \in {"daily", "session", "monthly"}
  /\ tz \in {0, 32400}
  /\ pc = "glob"
  /\ allEntries = << >>
  /\ sortedFiles = << >>
  /\ fileIdx = 0
  /\ lineIdx = 0
  /\ fetcher = "none"
  /\ pricingCalls = 0
  /\ processedHashes = {}
  /\ entryIdx = 1
  /\ windowMap = << >>
  /\ result = << >>
  /\ other = NoCall
  /\ probes = NoProbes

LoaderNext ==
  \/ Glob \/ SortFiles \/ CreateFetcher \/ ReadFile \/ DoLine \/ Aggregate \/ Monthly

DateSpec == DateInit /\ [][LoaderNext]_vars

\* The loaders on records whose message ids and request ids are any strings.
IdInit ==
  /\ files \in FileLists(IdPool, MaxFiles, MaxLines)
  /\ options = NoOptions
  /\ call \in {"daily", "session", "monthly"}
  /\ tz = 0
  /\ pc = "glob"
  /\ allEntries = << >>
  /\ sortedFiles = << >>
  /\ fileIdx = 0
  /\ lineIdx = 0
  /\ fetcher = "none"
  /\ pricingCalls = 0
  /\ processedHashes = {}
  /\ entryIdx = 1
  /\ windowMap = << >>
  /\ result = << >>
  /\ other = NoCall
  /\ probes = NoProbes

IdSpec == IdInit /\ [][LoaderNext]_vars

\* The loaders when the pricing provider may fail.  calculateCostFromTokens
\* returns a promise; when it rejects, the await in the try of the loop over
\* the lines throws after markAsProcessed, and the catch drops the line.
LossInit ==
  /\ files \in FileLists(LossPool, MaxFiles, MaxLines)
  /\ options \in { [NoOptions EXCEPT !.mode = m] :
                     m \in {None, Some("calculate"), Some("display")} }
  /\ call \in {"daily", "session", "monthly"}
  /\ tz = 0
  /\ pc = "glob"
  /\ allEntries = << >>
  /\ sortedFiles = << >>
  /\ fileIdx = 0
  /\ lineIdx = 0
  /\ fetcher = "none"
  /\ pricingCalls = 0
  /\ processedHashes = {}
  /\ entryIdx = 1
  /\ windowMap = << >>
  /\ result = << >>
  /\ other = NoCall
  /\ probes = NoProbes

\* one line of the current file for which the pricing provider is asked and
\* fails: the key of the record is in the set, and the record is no entry
DoLineCostFails ==
  /\ pc = "line"
  /\ LET file == sortedFiles[fileIdx]
         line == file.lines[lineIdx]
     IN /\ SchemaAccepts(line)
        /\ LET data == SchemaOutput(line)
               uniqueHash == createUniqueHash(data)
           IN /\ ~isDuplicateEntry(uniqueHash, processedHashes)
              /\ EntryCost(data, ModeOf(options)).calls > 0
              /\ processedHashes' = markAsProcessed(uniqueHash, processedHashes)
              /\ pricingCalls' = pricingCalls + EntryCost(data, ModeOf(options)).calls
        /\ IF lineIdx < Len(file.lines)
           THEN /\ lineIdx' = lineIdx + 1
                /\ UNCHANGED <<pc, fileIdx>>
           ELSE /\ fileIdx' = fileIdx + 1
                /\ pc' = "read"
                /\ UNCHANGED lineIdx
  /\ UNCHANGED <<tz, other, probes, files, options, call, entryIdx, windowMap,
                 sortedFiles, fetcher, allEntries, result>>

LossNext ==
  \/ Glob \/ SortFiles \/ CreateFetcher \/ ReadFile \/ DoLine \/ DoLineCostFails
  \/ Aggregate \/ Monthly

LossSpec == LossInit /\ [][LossNext]_vars

\* A call of a loader in which the probes of sortFilesByTimestamp start and
\* complete one by one, in any order.
ProbeInit ==
  /\ files \in FileLists(TwoPool, MaxFiles, MaxLines)
  /\ options = NoOptions
  /\ call \in {"daily", "session"}
  /\ tz = 0
  /\ pc = "glob"
  /\ allEntries = << >>
  /\ sortedFiles = << >>
  /\ fileIdx = 0
  /\ lineIdx = 0
  /\ fetcher = "none"
  /\ pricingCalls = 0
  /\ processedHashes = {}
  /\ entryIdx = 1
  /\ windowMap = << >>
  /\ result = << >>
  /\ other = NoCall
  /\ probes = NoProbes

\* files.map(async file => ...): the probe of a file begins
ProbeStart ==
  /\ pc = "sort"
  /\ \E i \in DOMAIN files \ probes.started :
       probes' = [probes EXCEPT !.started = @ \cup {i}]
  /\ UNCHANGED <<tz, other, files, options, call, pc, sortedFiles, fileIdx, lineIdx,
                 fetcher, pricingCalls, processedHashes, allEntries, entryIdx,
                 windowMap, result>>

\* getEarliestTimestamp(file) returns
ProbeComplete ==
  /\ pc = "sort"
  /\ \E i \in probes.started :
       /\ \A k \in DOMAIN probes.settled : probes.settled[k].index # i
       /\ probes' = [probes EXCEPT !.settled =
                       Append(@, [index |-> i, file |-> files[i],
                                  timestamp |-> getEarliestTimestamp(files[i], tz)])]
  /\ UNCHANGED <<tz, other, files, options, call, pc, sortedFiles, fileIdx, lineIdx,
                 fetcher, pricingCalls, processedHashes, allEntries, entryIdx,
                 windowMap, result>>

\* every probe has returned: Promise.all resolves, and the files are sorted
ProbesSorted ==
  /\ pc = "sort"
  /\ Len(probes.settled) = Len(files)
  /\ sortedFiles' = SortProbed(PromiseAll(Len(files), probes.settled))
  /\ pc' = "fetcher"
  /\ UNCHANGED <<tz, other, probes, files, options, call, entryIdx, windowMap, fileIdx,
                 lineIdx, fetcher, pricingCalls, processedHashes, allEntries, result>>

ProbeNext ==
  \/ Glob \/ ProbeStart \/ ProbeComplete \/ ProbesSorted
  \/ CreateFetcher \/ ReadFile \/ DoLine \/ Aggregate

ProbeSpec == ProbeInit /\ [][ProbeNext]_vars

\* Two calls of loadDailyUsageData or loadSessionData at the same time, on
\* the same directory or on two directories: their steps interleave in any
\* order.
TwoInit ==
  /\ files \in FileLists(TwoPool, MaxFiles, MaxLines - 1)
  /\ options = NoOptions
  /\ call \in {"daily", "session"}
  /\ tz = 0
  /\ pc = "glob"
  /\ allEntries = << >>
  /\ sortedFiles = << >>
  /\ fileIdx = 0
  /\ lineIdx = 0
  /\ fetcher = "none"
  /\ pricingCalls = 0
  /\ processedHashes = {}
  /\ entryIdx = 1
  /\ windowMap = << >>
  /\ result = << >>
  /\ other \in { NewCall(c, fs, NoOptions) :
                    c \in {"daily", "session"},
                    fs \in {files} \cup FileLists(TwoPool, 1, 1) }
  /\ probes = NoProbes

\* a step of the second call
OtherStep ==
  /\ other.pc \in {"glob", "sort", "fetcher", "read", "line"}
  /\ other' = CallStep(other, tz, processedHashes)
  /\ UNCHANGED <<tz, probes, files, options, call, pc, sortedFiles, fileIdx, lineIdx,
                 fetcher, pricingCalls, processedHashes, allEntries, entryIdx,
                 windowMap, result>>

TwoNext ==
  \/ Glob \/ SortFiles \/ CreateFetcher \/ ReadFile \/ DoLine \/ Aggregate
  \/ OtherStep

TwoSpec == TwoInit /\ [][TwoNext]_vars

Done == pc = "done"

Failed == pc = "failed"

(***************************************************************************)
(* Claims.                                                                  *)
(***************************************************************************)
InsertLine(fs, g, pos, line) ==
  [fs EXCEPT ![g].lines = SubSeq(@, 1, pos - 1) \o <<line>> \o SubSeq(@, pos, Len(@))]

\* the places <<f, i>> of the valid records of fs that have an identity key
KeyedRecords(fs) ==
  { p \in UNION { { <<f, i>> : i \in 1..Len(fs[f].lines) } : f \in 1..Len(fs) } :
      /\ SchemaAccepts(fs[p[1]].lines[p[2]])
      /\ createUniqueHash(SchemaOutput(fs[p[1]].lines[p[2]])) # None }

\* the places <<g, pos>> at which a further line can be added to fs
InsertionPlaces(fs) ==
  UNION { { <<g, pos>> : pos \in 1..(Len(fs[g].lines) + 1) } : g \in 1..Len(fs) }

ProcessingOrder(fs) == Pluck(sortFilesByTimestamp(fs, tz), "path")

\* where file g of fs comes in the processing order
PlaceInOrder(fs, g) ==
  CHOOSE k \in 1..Len(fs) : ProcessingOrder(fs)[k] = fs[g].path

\* the copy added at q is read after the record at p, and adding it moves no file
AddedAfter(fs, p, q) ==
  /\ ProcessingOrder(InsertLine(fs, q[1], q[2], fs[p[1]].lines[p[2]]))
       = ProcessingOrder(fs)
  /\ \/ q[1] = p[1] /\ q[2] > p[2]
     \/ q[1] # p[1] /\ PlaceInOrder(fs, q[1]) > PlaceInOrder(fs, p[1])

\* C1 as claimed: adding a second copy of a record that has both ids, as a
\* later line of its own file or as any line of another file, leaves the
\* result of loadDailyUsageData unchanged.
C1_AnyCopyLeavesResult ==
  (Done /\ call = "daily") =>
    \A p \in KeyedRecords(files) : \A q \in InsertionPlaces(files) :
      (q[1] # p[1] \/ q[2] > p[2]) =>
      loadDailyUsageData(InsertLine(files, q[1], q[2], files[p[1]].lines[p[2]]),
                         options, tz) = result

\* C1 as amended: a second copy of a record that has both ids leaves the result
\* of loadDailyUsageData unchanged when the copy is read after the record and
\* adding it does not change the order in which the files are processed.
C1_LaterCopyLeavesResult ==
  (Done /\ call = "daily") =>
    \A p \in KeyedRecords(files) : \A q \in InsertionPlaces(files) :
      AddedAfter(files, p, q) =>
        loadDailyUsageData(InsertLine(files, q[1], q[2], files[p[1]].lines[p[2]]),
                           options, tz) = result

\* a finished daily run over two files, with a keyed record that is counted
\* and a place in the other file where its copy is read later
C1_Witness ==
  /\ Done /\ call = "daily" /\ Len(result) > 0
  /\ \E p \in KeyedRecords(files) : \E q \in InsertionPlaces(files) :
       /\ q[1] # p[1]
       /\ AddedAfter(files, p, q)
       /\ \E e \in 1..Len(allEntries) :
            allEntries[e].data = SchemaOutput(files[p[1]].lines[p[2]])

\* the line the loop is about to process, and whether it is a valid record
\* without an identity key
CurrentLine == sortedFiles[fileIdx].lines[lineIdx]

Keyless(data) == data.message.id = None \/ data.requestId = None

KeylessLines(fs) ==
  { p \in UNION { { <<f, i>> : i \in 1..Len(fs[f].lines) } : f \in 1..Len(fs) } :
      /\ SchemaAccepts(fs[p[1]].lines[p[2]])
      /\ Keyless(SchemaOutput(fs[p[1]].lines[p[2]])) }

PlacesInOrder(sorted) ==
  Flatten([f \in DOMAIN sorted |-> [i \in DOMAIN sorted[f].lines |-> <<f, i>>]])

RecordAt(sorted, p) == SchemaOutput(sorted[p[1]].lines[p[2]])

SameKey(a, b) ==
  /\ ~Keyless(a) /\ ~Keyless(b)
  /\ a.message.id = b.message.id
  /\ a.requestId = b.requestId

\* the places of the valid records that no earlier valid record shares its
\* identity key with
FirstEncountered(sorted) ==
  LET places == PlacesInOrder(sorted)
  IN Keep(places, [k \in DOMAIN places |->
       /\ SchemaAccepts(sorted[places[k][1]].lines[places[k][2]])
       /\ \A j \in 1..(k - 1) :
            SchemaAccepts(sorted[places[j][1]].lines[places[j][2]]) =>
              ~SameKey(RecordAt(sorted, places[j]), RecordAt(sorted, places[k]))])

C4_DisplayNeedsNoProvider ==
  ModeOf(options) = "display" =>
    /\ fetcher = "none"
    /\ pricingCalls = 0
    /\ \A e \in DOMAIN allEntries :
         LET data == allEntries[e].data
             expected == IF data.costUSD # None THEN data.costUSD[1] ELSE 0
         IN /\ allEntries[e].cost = expected
            /\ calculateCostForEntry(data, "display") = [cost |-> expected, calls |-> 0]
    /\ Done =>
         \A r \in DOMAIN result :
           result[r].totalCost
             = SumSeq([e \in DOMAIN allEntries |->
                 IF (IF call = "session"
                     THEN /\ allEntries[e].sessionId = result[r].sessionId
                          /\ allEntries[e].projectPath = result[r].projectPath
                     ELSE allEntries[e].date = result[r].date)
                 THEN OrElse(allEntries[e].data.costUSD, 0) ELSE 0])

\* a finished display run that kept a record of a priced model without
\* costUSD and a record with a costUSD that is not 0
C4_Witness ==
  /\ Done /\ ModeOf(options) = "display"
  /\ \E e \in DOMAIN allEntries :
       /\ allEntries[e].data.message.model = Some(Sonnet)
       /\ allEntries[e].data.costUSD = None
       /\ allEntries[e].cost = 0
  /\ \E e \in DOMAIN allEntries :
       /\ allEntries[e].data.costUSD # None
       /\ allEntries[e].cost > 0

\* values a costUSD can take: absent, 0, and two amounts
CostValues == {None, Some(0), Some(1), Some(50000)}

\* the cost of the tokens of a record at the rates of its model
TokenCost(data) ==
  LET usage == data.message.usage
      rates == PricingTable[data.message.model[1]]
  IN usage.input_tokens[1] * rates.input
     + usage.output_tokens[1] * rates.output
     + OrElse(usage.cache_creation_input_tokens, 0) * rates.cacheWrite
     + OrElse(usage.cache_read_input_tokens, 0) * rates.cacheRead

\* C5: in calculate mode the cost of a record does not depend on its costUSD:
\* it is the same for every value of costUSD, present or absent; it is the
\* token-based cost when the record has a model the provider knows, and 0
\* when it has no model or the provider does not know the model.
C5_CalculateIgnoresCostUSD ==
  ModeOf(options) = "calculate" =>
    \A e \in DOMAIN allEntries :
      LET data == allEntries[e].data
      IN /\ \A c \in CostValues :
              calculateCostForEntry([data EXCEPT !.costUSD = c], "calculate").cost
                = allEntries[e].cost
         /\ allEntries[e].cost =
              IF data.message.model = None THEN 0
              ELSE IF data.message.model[1] \in DOMAIN PricingTable
              THEN TokenCost(data)
              ELSE 0

\* a calculate run that kept a record of a priced model whose cost is not its
\* costUSD, a record without a model and a record of an unknown model, both
\* with a costUSD that is not 0 and a cost of 0
C5_Witness ==
  /\ ModeOf(options) = "calculate"
  /\ \E e \in DOMAIN allEntries :
       /\ allEntries[e].data.message.model = Some(Sonnet)
       /\ allEntries[e].data.costUSD = Some(50000)
       /\ allEntries[e].cost = 11300
  /\ \E e \in DOMAIN allEntries :
       /\ allEntries[e].data.message.model \in {None, Some("unknown-model")}
       /\ allEntries[e].data.costUSD = Some(50000)
       /\ allEntries[e].cost = 0

\* C6: in auto mode, which is the mode when none is given, the cost of a
\* record is its costUSD whenever that is present, 0 included and whatever
\* the model, and otherwise what calculate mode returns for the record: 0
\* when it has neither costUSD nor a model.
C6_AutoPrefersCostUSD ==
  (options.mode \in {None, Some("auto")}) =>
    /\ ModeOf(options) = "auto"
    /\ \A e \in DOMAIN allEntries :
         LET data == allEntries[e].data
         IN /\ data.costUSD # None => allEntries[e].cost = data.costUSD[1]
            /\ data.costUSD = None =>
                 /\ allEntries[e].cost = calculateCostForEntry(data, "calculate").cost
                 /\ data.message.model = None => allEntries[e].cost = 0
                 /\ data.message.model = Some(Sonnet) =>
                      allEntries[e].cost = TokenCost(data)

\* a run without a mode that kept a record of a priced model whose costUSD
\* is 0, and a record of that model without costUSD at its token-based cost
C6_Witness ==
  /\ options.mode = None
  /\ \E e \in DOMAIN allEntries :
       /\ allEntries[e].data.message.model = Some(Sonnet)
       /\ allEntries[e].data.costUSD = Some(0)
       /\ allEntries[e].cost = 0
  /\ \E e \in DOMAIN allEntries :
       /\ allEntries[e].data.message.model = Some(Sonnet)
       /\ allEntries[e].data.costUSD = None
       /\ allEntries[e].cost = 11300

\* the start hours of the five windows of a UTC day
WindowStartHours == {0, 5, 10, 15, 20}

\* the identifier the claim gives the window of a timestamp: its UTC date,
\* then the largest start hour that is not after its UTC hour
WindowIdOf(timestamp) ==
  LET t == DateGetTime(timestamp, tz)
      civ == CivilFromDays(t \div 86400)
      hour == (t % 86400) \div 3600
      start == CHOOSE b \in WindowStartHours :
                 /\ b <= hour
                 /\ \A c \in WindowStartHours : c <= hour => c <= b
  IN NumStr(civ[1]) \o <<"-">> \o padStart2(NumStr(civ[2])) \o <<"-">>
       \o padStart2(NumStr(civ[3])) \o <<"-">> \o padStart2(NumStr(start))

\* C7: calculateWindowStatistics puts each entry into the window named by its
\* UTC date and the largest start hour of {00, 05, 10, 15, 20} that is not
\* after its UTC hour: the Map holds one window for each such identifier and
\* no other, and each window counts exactly the entries of its identifier;
\* an entry at 05:00:00 is in the window '-05', one at 04:59:59 in '-00'.
C7_WindowBoundary ==
  (Done /\ call = "window") =>
    /\ \A e \in DOMAIN allEntries :
         \E k \in DOMAIN result :
           /\ result[k].windowId = WindowIdOf(allEntries[e].timestamp)
           /\ allEntries[e].timestamp.tod = 18000 /\ allEntries[e].timestamp.zone = "Z"
                => substring(result[k].windowId, 10, 13) = <<"-", "0", "5">>
           /\ allEntries[e].timestamp.tod = 17999 /\ allEntries[e].timestamp.zone = "Z"
                => substring(result[k].windowId, 10, 13) = <<"-", "0", "0">>
    /\ \A k \in DOMAIN result :
         /\ result[k].messageCount =
              Cardinality({ e \in DOMAIN allEntries :
                              WindowIdOf(allEntries[e].timestamp) = result[k].windowId })
         /\ result[k].messageCount > 0
         /\ \A j \in DOMAIN result : j # k => result[j].windowId # result[k].windowId

\* the windows of entries at 04:59:59 and at 05:00:00 of one day have been
\* computed, and they are two windows
C7_Witness ==
  /\ Done /\ call = "window" /\ Len(result) = 2
  /\ \E e, f \in DOMAIN allEntries :
       /\ allEntries[e].timestamp = Ts(2025, 6, 16, 17999, "Z")
       /\ allEntries[f].timestamp = Ts(2025, 6, 16, 18000, "Z")
  /\ \E k \in DOMAIN result : result[k].windowId[12] = "0" /\ result[k].windowId[13] = "0"
  /\ \E k \in DOMAIN result : result[k].windowId[12] = "0" /\ result[k].windowId[13] = "5"

\* the date a list is sorted and filtered by: date, lastActivity or month
DateField(c) ==
  CASE c = "daily" -> "date" [] c = "session" -> "lastActivity" [] c = "monthly" -> "month"

\* what the loader of this run returns for other options
Reload(opts) ==
  CASE call = "daily" -> loadDailyUsageData(files, opts, tz)
    [] call = "session" -> loadSessionData(files, opts, tz)
    [] call = "monthly" -> loadMonthlyUsageData(files, opts, tz)

\* C8: the list a loader returns is in non-decreasing order of its date
\* (date, lastActivity, month) when order is 'asc' and in non-increasing
\* order when it is 'desc'; without an order it is the list that order
\* 'desc' gives.
C8_SortOrder ==
  (Done /\ call \in {"daily", "session", "monthly"}) =>
    LET dates == Pluck(result, DateField(call))
    IN /\ options.order = Some("asc") =>
            \A i, j \in DOMAIN dates : i < j => ~StrLess(dates[j], dates[i])
       /\ options.order = Some("desc") =>
            \A i, j \in DOMAIN dates : i < j => ~StrLess(dates[i], dates[j])
       /\ options.order = None =>
            /\ result = Reload([options EXCEPT !.order = Some("desc")])
            /\ \A i, j \in DOMAIN dates : i < j => ~StrLess(dates[i], dates[j])

\* a finished daily run without an order over records of three dates across a
\* year boundary that were not read latest first
C8_Witness ==
  /\ Done /\ call = "daily" /\ options.order = None /\ Len(result) = 3
  /\ StrLess(allEntries[1].date, allEntries[Len(allEntries)].date)
  /\ \E i, j \in DOMAIN result :
       /\ substring(result[i].date, 0, 4) = <<"2", "0", "2", "3">>
       /\ substring(result[j].date, 0, 4) = <<"2", "0", "2", "4">>

\* YYYY-MM-DD as the number YYYYMMDD
DateNumber(date) == ParseNum(SelectSeq(date, LAMBDA c : c # "-"))

\* since <= date <= until, each bound applied only when given
InRange(date, opts) ==
  /\ opts.since # None => ParseNum(opts.since[1]) <= DateNumber(date)
  /\ opts.until # None => DateNumber(date) <= ParseNum(opts.until[1])

Unfiltered(opts) == [opts EXCEPT !.since = None, !.until = None]

\* C9: with since and/or until, loadDailyUsageData and loadSessionData return
\* exactly the entries of the unfiltered result whose date (lastActivity)
\* lies within the bounds, the bounds included, each as it is in the
\* unfiltered result.
C9_FilterInclusive ==
  (Done /\ call \in {"daily", "session"}
        /\ (options.since # None \/ options.until # None)) =>
    LET all == Reload(Unfiltered(options))
        dates == Pluck(all, DateField(call))
    IN result = Keep(all, [i \in DOMAIN all |-> InRange(dates[i], options)])

\* a finished daily run with both bounds over records of three dates, one of
\* them a day outside the bounds, that returns the days dated on since and on
\* until
C9_Witness ==
  /\ Done /\ call = "daily" /\ options.since # None /\ options.until # None
  /\ Len(Reload(Unfiltered(options))) = 3
  /\ Len(result) = 2
  /\ \E r \in DOMAIN result : DateNumber(result[r].date) = ParseNum(Since)
  /\ \E r \in DOMAIN result : DateNumber(result[r].date) = ParseNum(Until)

\* C10 as claimed: loadMonthlyUsageData with since/until returns a month iff
\* the first day of the month lies within the bounds, and a returned month
\* carries the totals of all its days.
C10_MonthStartFilter ==
  (Done /\ call = "monthly" /\ (options.since # None \/ options.until # None)) =>
    LET all == Reload(Unfiltered(options))
    IN result = Keep(all, [i \in DOMAIN all |->
                  InRange(all[i].month \o <<"-", "0", "1">>, options)])

\* the days of the unfiltered daily result that lie within the bounds and in
\* month m
DaysInRange(m, opts) ==
  LET days == loadDailyUsageData(files, Unfiltered(opts), tz)
  IN Keep(days, [i \in DOMAIN days |->
       InRange(days[i].date, opts) /\ substring(days[i].date, 0, 7) = m])

\* C10 as amended: loadMonthlyUsageData with since/until applies the bounds
\* to the days: a month is returned iff one of its days with usage lies
\* within the bounds, and it carries the totals of those days only.
C10_MonthOfDaysInRange ==
  (Done /\ call = "monthly" /\ (options.since # None \/ options.until # None)) =>
    LET all == Reload(Unfiltered(options))
    IN /\ \A i \in DOMAIN all :
            (\E r \in DOMAIN result : result[r].month = all[i].month)
              <=> DaysInRange(all[i].month, options) # << >>
       /\ \A r, q \in DOMAIN result : r # q => result[r].month # result[q].month
       /\ \A r \in DOMAIN result :
            LET days == DaysInRange(result[r].month, options)
            IN /\ days # << >>
               /\ result[r].inputTokens = SumSeq(Pluck(days, "inputTokens"))
               /\ result[r].outputTokens = SumSeq(Pluck(days, "outputTokens"))
               /\ result[r].cacheCreationTokens
                    = SumSeq(Pluck(days, "cacheCreationTokens"))
               /\ result[r].cacheReadTokens = SumSeq(Pluck(days, "cacheReadTokens"))
               /\ result[r].totalCost = SumSeq(Pluck(days, "totalCost"))

\* a finished monthly run with both bounds that returns a month whose first
\* day is before since, with the totals of fewer days than the month has
C10_Witness ==
  /\ Done /\ call = "monthly" /\ options.since # None /\ options.until # None
  /\ \E r \in DOMAIN result :
       /\ ~InRange(result[r].month \o <<"-", "0", "1">>, options)
       /\ \E i \in DOMAIN Reload(Unfiltered(options)) :
            /\ Reload(Unfiltered(options))[i].month = result[r].month
            /\ Reload(Unfiltered(options))[i].inputTokens > result[r].inputTokens

\* the month a daily entry begins with
MonthPrefix(day) == SubSeq(day.date, 1, 7)

\* the daily entries of the same files and options that begin with month m
DaysOfMonth(m) ==
  LET daily == loadDailyUsageData(files, options, tz)
  IN Keep(daily, [i \in DOMAIN daily |-> MonthPrefix(daily[i]) = m])

\* C11: every entry loadMonthlyUsageData returns holds, for each of
\* inputTokens, outputTokens, cacheCreationTokens, cacheReadTokens and
\* totalCost, the sum of that field over the entries loadDailyUsageData
\* returns for the same options whose date begins with its month; there is
\* one monthly entry for each month some daily entry begins with, so that
\* every daily entry is counted in exactly one month.
C11_MonthlyFromDaily ==
  (Done /\ call = "monthly") =>
    LET daily == loadDailyUsageData(files, options, tz)
    IN /\ \A k \in DOMAIN result :
            LET days == DaysOfMonth(result[k].month)
            IN /\ Len(days) > 0
               /\ \A f \in {"inputTokens", "outputTokens", "cacheCreationTokens",
                            "cacheReadTokens", "totalCost"} :
                    result[k][f] = SumSeq(Pluck(days, f))
       /\ \A i \in DOMAIN daily :
            Cardinality({ k \in DOMAIN result :
                            result[k].month = MonthPrefix(daily[i]) }) = 1
       /\ Len(result) = Cardinality({ MonthPrefix(daily[i]) : i \in DOMAIN daily })

\* a monthly run over two months, one of them summed over two days
C11_Witness ==
  /\ Done /\ call = "monthly"
  /\ Len(result) = 2
  /\ \E k \in DOMAIN result :
       /\ Len(DaysOfMonth(result[k].month)) = 2
       /\ result[k].inputTokens > 0

TokenFields == {"inputTokens", "outputTokens", "cacheCreationTokens", "cacheReadTokens"}

\* the tokens of one category that a collected entry carries
TokensOf(e, f) ==
  LET u == e.data.message.usage
  IN CASE f = "inputTokens" -> OrElse(u.input_tokens, 0)
       [] f = "outputTokens" -> OrElse(u.output_tokens, 0)
       [] f = "cacheCreationTokens" -> OrElse(u.cache_creation_input_tokens, 0)
       [] f = "cacheReadTokens" -> OrElse(u.cache_read_input_tokens, 0)

\* the collected entries that belong to the aggregate r of this run: those
\* of its day, of its session, or of the days of its month that passed the
\* date filter
GroupOf(r) ==
  Keep(allEntries, [i \in DOMAIN allEntries |->
    CASE call = "daily" -> allEntries[i].date = r.date
      [] call = "monthly" -> /\ SubSeq(allEntries[i].date, 1, 7) = r.month
                             /\ InRange(allEntries[i].date, options)
      [] call = "session" -> /\ allEntries[i].sessionId = r.sessionId
                             /\ allEntries[i].projectPath = r.projectPath])

IsSynthetic(e) == e.model = Some("<synthetic>")

SyntheticOf(r) ==
  LET group == GroupOf(r)
  IN Keep(group, [i \in DOMAIN group |-> IsSynthetic(group[i])])

\* C12: in every daily, session and monthly aggregate the model
\* '<synthetic>' occurs neither in modelBreakdowns nor in modelsUsed, while
\* the token totals and totalCost are taken over every record of the group,
\* the synthetic ones too; so each token total is the sum of that category
\* over modelBreakdowns (the 'unknown' bucket included) plus the tokens of
\* the group's synthetic records.
C12_SyntheticExcluded ==
  (Done /\ call \in {"daily", "session", "monthly"}) =>
    \A k \in DOMAIN result :
      LET r == result[k]
          group == GroupOf(r)
          synthetic == SyntheticOf(r)
      IN /\ \A b \in DOMAIN r.modelBreakdowns :
              r.modelBreakdowns[b].modelName # "<synthetic>"
         /\ \A m \in DOMAIN r.modelsUsed : r.modelsUsed[m] # "<synthetic>"
         /\ r.totalCost = SumSeq(Pluck(group, "cost"))
         /\ \A f \in TokenFields :
              /\ r[f] = SumSeq([i \in DOMAIN group |-> TokensOf(group[i], f)])
              /\ r[f] = SumSeq(Pluck(r.modelBreakdowns, f))
                        + SumSeq([i \in DOMAIN synthetic |->
                                    TokensOf(synthetic[i], f)])

\* an aggregate of a synthetic record, a record of a named model and a
\* record without a model: two breakdowns, one of them 'unknown'
C12_Witness ==
  /\ Done /\ call \in {"daily", "session", "monthly"}
  /\ \E k \in DOMAIN result :
       /\ Len(SyntheticOf(result[k])) > 0
       /\ Len(GroupOf(result[k])) = 3
       /\ Len(result[k].modelBreakdowns) = 2
       /\ \E b \in DOMAIN result[k].modelBreakdowns :
            result[k].modelBreakdowns[b].modelName = "unknown"
       /\ result[k].inputTokens = 7

\* the files without the lines the loaders drop
WithoutDropped(fs) ==
  [f \in DOMAIN fs |->
     [fs[f] EXCEPT !.lines = Keep(@, [i \in DOMAIN @ |-> SchemaAccepts(@[i])])]]

\* C13: a line that is not JSON, or lacks the timestamp or the usage
\* object, is dropped without effect on any other line: loadDailyUsageData
\* and loadSessionData return what they return for the same files without
\* those lines.
C13_DroppedLinesChangeNothing ==
  (Done /\ call \in {"daily", "session"}) =>
    result = (IF call = "daily"
              THEN loadDailyUsageData(WithoutDropped(files), options, tz)
              ELSE loadSessionData(WithoutDropped(files), options, tz))

\* the files that can be read
ReadableFiles(fs) == Keep(fs, Pluck(fs, "readable"))

\* C14: a file that cannot be read while its content is processed is
\* skipped: no call of loadDailyUsageData or loadSessionData fails on it,
\* and the call returns the aggregate of the other files.
C14_UnreadableFileSkipped ==
  /\ ~Failed
  /\ (Done /\ call \in {"daily", "session"}) =>
       result = (IF call = "daily"
                 THEN loadDailyUsageData(ReadableFiles(files), options, tz)
                 ELSE loadSessionData(ReadableFiles(files), options, tz))

\* the directory a file lies in, as segments below the projects directory
ParentDirectory(file) == SubSeq(file.path, 1, Len(file.path) - 1)

\* C15: every session entry carries the name of the directory its records'
\* files lie in as sessionId, and the joined segments above that directory
\* as projectPath ('Unknown Project' when there are none); two records are
\* counted in the same session entry exactly when their files lie in the
\* same directory, so that an entry's input tokens are those of the records
\* of one directory.
C15_SessionIsParentDirectory ==
  (Done /\ call = "session" /\ Len(files) > 0) =>
    LET sorted == sortFilesByTimestamp(files, tz)
        kept == FirstEncountered(sorted)
        DirOf(k) == ParentDirectory(sorted[kept[k][1]])
    IN /\ Len(allEntries) = Len(kept)
       /\ \A k \in DOMAIN kept :
            LET dir == DirOf(k)
            IN /\ dir # << >> => allEntries[k].sessionId = dir[Len(dir)]
               /\ allEntries[k].projectPath
                    = (IF Len(dir) > 1 THEN join(SubSeq(dir, 1, Len(dir) - 1), "/")
                       ELSE "Unknown Project")
       /\ \A k1, k2 \in DOMAIN kept :
            (allEntries[k1].sessionKey = allEntries[k2].sessionKey)
              <=> (DirOf(k1) = DirOf(k2))
       /\ \A r \in DOMAIN result :
            \E k \in DOMAIN kept :
              /\ result[r].sessionId = allEntries[k].sessionId
              /\ result[r].projectPath = allEntries[k].projectPath
              /\ result[r].inputTokens
                   = SumSeq([j \in DOMAIN kept |->
                       IF DirOf(j) = DirOf(k)
                       THEN OrElse(allEntries[j].data.message.usage.input_tokens, 0)
                       ELSE 0])

\* C16: when groupWindowsByMonth is given a sessionLimit L, every monthly
\* summary has sessionLimit = L, remainingSessions = max(0, L - windowCount)
\* and utilizationPercent = windowCount / L * 100, which is not capped at
\* 100; without a sessionLimit none of the three fields is set.
C16_SessionLimit ==
  (Done /\ call = "windowMonths") =>
    \A k \in DOMAIN result :
      LET r == result[k]
          windowCount ==
            Cardinality({ w \in DOMAIN windowMap : windowMap[w].month = r.month })
      IN /\ r.windowCount = windowCount
         /\ IF options.sessionLimit = None
            THEN /\ r.sessionLimit = None
                 /\ r.remainingSessions = None
                 /\ r.utilizationPercent = None
            ELSE LET L == options.sessionLimit[1]
                     u == r.utilizationPercent[1]
                 IN /\ r.sessionLimit = Some(L)
                    /\ r.remainingSessions
                         = Some(IF L - windowCount > 0 THEN L - windowCount ELSE 0)
                    /\ u.den # 0
                    /\ u.num * L = windowCount * 100 * u.den

\* a month of three windows under a limit of two: none remain, and the
\* utilization is 150 percent
C16_Witness ==
  /\ Done /\ call = "windowMonths"
  /\ options.sessionLimit = Some(2)
  /\ \E k \in DOMAIN result :
       /\ result[k].windowCount = 3
       /\ result[k].remainingSessions = Some(0)
       /\ result[k].utilizationPercent[1].num
            = 150 * result[k].utilizationPercent[1].den

DigitChars == { Digits[i] : i \in DOMAIN Digits }

\* YYYY-MM-DD: four digits, two digits and two digits, joined by hyphens
IsYearMonthDay(s) ==
  /\ Len(s) = 10
  /\ \A i \in {1, 2, 3, 4, 6, 7, 9, 10} : s[i] \in DigitChars
  /\ s[5] = "-" /\ s[8] = "-"

\* YYYY-MM
IsYearMonth(s) ==
  /\ Len(s) = 7
  /\ \A i \in {1, 2, 3, 4, 6, 7} : s[i] \in DigitChars
  /\ s[5] = "-"

\* C17: for every record the validator accepts, the date of a DailyUsage and
\* the lastActivity of a SessionUsage have the form YYYY-MM-DD, and the
\* month of a MonthlyUsage has the form YYYY-MM.
C17_DateFormats ==
  Done =>
    \A k \in DOMAIN result :
      CASE call = "daily" -> IsYearMonthDay(result[k].date)
        [] call = "session" -> IsYearMonthDay(result[k].lastActivity)
        [] call = "monthly" -> IsYearMonth(result[k].month)
        [] OTHER -> TRUE

\* what the second call returns when it runs alone
OtherAlone ==
  IF other.call = "daily"
  THEN loadDailyUsageData(other.files, other.options, tz)
  ELSE loadSessionData(other.files, other.options, tz)

\* the entries the second call collects when it runs alone
OtherEntriesAlone ==
  CollectEntries(other.call, other.files, other.options, tz).entries

\* C18: two calls of loadDailyUsageData or loadSessionData whose steps
\* interleave share neither the set of processed hashes nor the entries
\* collected: each returns what it returns when it runs alone, and a key
\* one call has processed never makes the other drop a record.
C18_CallsAreIsolated ==
  /\ (Done /\ call \in {"daily", "session"}) => result = Reload(options)
  /\ other.pc = "done" =>
       /\ other.result = OtherAlone
       /\ Len(other.files) > 0 => other.allEntries = OtherEntriesAlone

\* both calls, one of each loader, have run over the same files, and each
\* has collected the record whose key the other has processed too
C18_Witness ==
  /\ Done /\ other.pc = "done"
  /\ other.files = files /\ call # other.call
  /\ processedHashes # {} /\ processedHashes = other.processedHashes
  /\ Len(allEntries) = 1 /\ Len(other.allEntries) = 1

\* the call of loadDailyUsageData or loadSessionData has completed: it has
\* returned (to loadMonthlyUsageData, in a monthly call) or rejected
Completed == pc \in {"done", "failed", "monthly"}

NeedsPricing == ModeOf(options) \in {"calculate", "auto"}

\* C19: in a call of a loader in mode 'calculate' or 'auto' that finds a
\* file, one PricingFetcher is constructed, before the first file is read;
\* it is the live fetcher while every record is processed and priced; and it
\* is disposed of once, when the call completes, whether the call returns
\* or rejects because a file cannot be read.  In every other call none is
\* constructed.
C19_FetcherLifecycle ==
  /\ [][/\ fetcher' # fetcher =>
             \/ /\ fetcher = "none" /\ fetcher' = "live"
                /\ pc = "fetcher" /\ NeedsPricing
             \/ /\ fetcher = "live" /\ fetcher' = "disposed"
                /\ ~Completed /\ Completed'
        /\ pricingCalls' # pricingCalls => fetcher = "live" /\ fetcher' = "live"]_vars
  /\ [](call \in {"daily", "session", "monthly"} =>
          /\ (pc \in {"read", "line"} /\ NeedsPricing) => fetcher = "live"
          /\ (Completed /\ NeedsPricing /\ Len(files) > 0) => fetcher = "disposed"
          /\ (~NeedsPricing \/ Len(files) = 0) => fetcher = "none")

\* a call in mode 'calculate' that rejected on a file it could not read,
\* after it had collected an entry: the fetcher is disposed of
C19_Witness ==
  /\ Failed /\ ModeOf(options) = "calculate"
  /\ Len(allEntries) > 0
  /\ fetcher = "disposed"

\* the times of the lines of a file that are JSON with a timestamp that is
\* a date; none when the file cannot be read
TimesOf(file) ==
  IF ~file.readable THEN {}
  ELSE { DateGetTime(file.lines[i].timestamp[1], tz) :
           i \in { j \in DOMAIN file.lines :
                     /\ file.lines[j].json
                     /\ file.lines[j].timestamp # None
                     /\ IsDate(file.lines[j].timestamp[1]) } }

\* the files are in processing order
Sorted == pc \in {"fetcher", "read", "line", "done", "failed", "monthly"} /\ Len(files) > 0

\* C20: sortFilesByTimestamp returns a permutation of its input; the files
\* with an earliest timestamp (the least time over their lines, malformed
\* lines ignored) come first, in non-decreasing order of it; the files
\* without one (no line with a timestamp, or not readable) come after them,
\* in the order they have in the input; files of equal earliest timestamp
\* keep their input order too.
C20_FileOrder ==
  (Sorted /\ call \in {"daily", "session", "monthly"}) =>
    \E perm \in [DOMAIN files -> DOMAIN files] :
      /\ \A i, j \in DOMAIN files : i # j => perm[i] # perm[j]
      /\ Len(sortedFiles) = Len(files)
      /\ \A i \in DOMAIN files : sortedFiles[i] = files[perm[i]]
      /\ \A i, j \in DOMAIN files :
           i < j =>
             LET ti == TimesOf(sortedFiles[i])
                 tj == TimesOf(sortedFiles[j])
             IN /\ ti = {} => tj = {}
                /\ (ti # {} /\ tj # {}) =>
                     \E t \in ti : /\ \A u \in ti : t <= u
                                   /\ \A u \in tj : t <= u
                /\ (ti = {} \/ (tj # {} /\ \E t \in ti : t \in tj
                                          /\ \A u \in ti \cup tj : t <= u))
                     => perm[i] < perm[j]

\* a file that cannot be read, found before a file with a record, is
\* processed after it
C20_Witness ==
  /\ Sorted /\ Len(files) = 2
  /\ ~files[1].readable /\ TimesOf(files[2]) # {}
  /\ sortedFiles = <<files[2], files[1]>>

\* C21: the order sortFilesByTimestamp returns is the same for every order
\* in which the probes of the files start and complete: it is the order
\* determined by the files and their contents alone, and so are the entries
\* kept and the result of the call.
C21_ProbeScheduleIrrelevant ==
  (call \in {"daily", "session"} /\ Len(files) > 0) =>
    /\ pc \in {"fetcher", "read", "line", "done"} =>
         sortedFiles = sortFilesByTimestamp(files, tz)
    /\ Done => /\ allEntries = CollectEntries(call, files, options, tz).entries
               /\ result = Reload(options)

\* a session call over two files of equal earliest timestamp that hold the
\* same record: the probe of the second file completed first, and the record
\* is counted in the session of the first file
C21_Witness ==
  /\ Done /\ call = "session" /\ Len(files) = 2
  /\ Len(probes.settled) = 2 /\ probes.settled[1].index = 2
  /\ probes.settled[1].timestamp # None
  /\ probes.settled[1].timestamp = probes.settled[2].timestamp
  /\ files[1].lines = files[2].lines
  /\ Len(allEntries) = 1
  /\ allEntries[1].sessionId = SessionIdOf(files[1])

\* the entries the claims count in a window: those whose timestamp has the
\* identifier of the window
EntriesOfWindow(w) ==
  { e \in DOMAIN allEntries : WindowIdOf(allEntries[e].timestamp) = w.windowId }

\* the sum of a token field (or of the cost) over the entries of a window
WindowSum(w, f) ==
  SumSeq([e \in DOMAIN allEntries |->
           IF e \in EntriesOfWindow(w)
           THEN (IF f = "cost" THEN allEntries[e].cost ELSE TokensOf(allEntries[e], f))
           ELSE 0])

\* C22: for every window calculateWindowStatistics returns, startTimestamp is
\* the least and endTimestamp the greatest timestamp string of the entries
\* mapped to the window, whatever the order of the entries; duration is the
\* instant of endTimestamp minus the instant of startTimestamp in
\* milliseconds (17999000 for 00:00:00Z and 04:59:59Z); messageCount, the
\* four token sums and totalCost are the count and the sums over exactly
\* those entries.
C22_WindowExtent ==
  (Done /\ call = "window") =>
    \A k \in DOMAIN result :
      LET w == result[k]
          es == EntriesOfWindow(w)
          raw(e) == RawTimestamp(allEntries[e].timestamp)
      IN /\ \E e \in es : allEntries[e].timestamp = w.startTimestamp
         /\ \E e \in es : allEntries[e].timestamp = w.endTimestamp
         /\ \A e \in es : /\ ~StrLess(raw(e), RawTimestamp(w.startTimestamp))
                          /\ ~StrLess(RawTimestamp(w.endTimestamp), raw(e))
         /\ w.duration = (DateGetTime(w.endTimestamp, tz)
                          - DateGetTime(w.startTimestamp, tz)) * 1000
         /\ (w.startTimestamp = Ts(2025, 6, 16, 0, "Z")
             /\ w.endTimestamp = Ts(2025, 6, 16, 17999, "Z")) => w.duration = 17999000
         /\ w.messageCount = Cardinality(es)
         /\ w.inputTokens = WindowSum(w, "inputTokens")
         /\ w.outputTokens = WindowSum(w, "outputTokens")
         /\ w.cacheCreationTokens = WindowSum(w, "cacheCreationTokens")
         /\ w.cacheReadTokens = WindowSum(w, "cacheReadTokens")
         /\ w.totalCost = WindowSum(w, "cost")

\* a window of three entries, given neither earliest nor latest first, that
\* starts at 00:00:00Z and ends at 04:59:59Z: 17999000 milliseconds
C22_Witness ==
  /\ Done /\ call = "window" /\ Len(allEntries) = 3 /\ Len(result) = 1
  /\ allEntries[1].timestamp = Ts(2025, 6, 16, 3600, "Z")
  /\ result[1].startTimestamp = Ts(2025, 6, 16, 0, "Z")
  /\ result[1].endTimestamp = Ts(2025, 6, 16, 17999, "Z")
  /\ result[1].duration = 17999000
  /\ result[1].messageCount = 3
  /\ result[1].inputTokens = 207
  /\ result[1].totalCost = 20700

\* the session keys a single pass would collect for a window: one set for
\* each window, to which every entry adds its key when it is put into the
\* window
RECURSIVE SinglePassSessions(_, _)
SinglePassSessions(w, i) ==
  IF i = 0 THEN {}
  ELSE SinglePassSessions(w, i - 1)
         \cup (IF WindowIdOf(allEntries[i].timestamp) = w.windowId
               THEN {allEntries[i].sessionKey} ELSE {})

\* C23: for every window, sessionCount is the number of distinct session
\* keys among the entries mapped to the window; the second pass over all
\* entries gives the count a per-window set filled in a single pass gives;
\* and 1 <= sessionCount <= messageCount.
C23_SessionCount ==
  (Done /\ call = "window") =>
    \A k \in DOMAIN result :
      LET w == result[k]
      IN /\ w.sessionCount
              = Cardinality({ allEntries[e].sessionKey : e \in EntriesOfWindow(w) })
         /\ w.sessionCount = Cardinality(SinglePassSessions(w, Len(allEntries)))
         /\ 1 <= w.sessionCount
         /\ w.sessionCount <= w.messageCount

\* three entries of two sessions: a window of two entries counts two
\* sessions, a window of one entry counts one
C23_Witness ==
  /\ Done /\ call = "window" /\ Len(allEntries) = 3
  /\ \E k \in DOMAIN result :
       /\ result[k].messageCount = 2 /\ result[k].sessionCount = 2
  /\ \E k \in DOMAIN result :
       /\ result[k].messageCount = 1 /\ result[k].sessionCount = 1
  /\ Cardinality({ allEntries[e].sessionKey : e \in DOMAIN allEntries }) = 2

\* the models of the entries of a window other than '<synthetic>', each once,
\* in the order of their first entry
RECURSIVE ModelsInOrder(_, _)
ModelsInOrder(w, i) ==
  IF i = 0 THEN << >>
  ELSE LET before == ModelsInOrder(w, i - 1)
           e == allEntries[i]
       IN IF /\ i \in EntriesOfWindow(w)
             /\ e.model # None
             /\ ~IsSynthetic(e)
             /\ \A k \in DOMAIN before : before[k] # e.model[1]
          THEN Append(before, e.model[1]) ELSE before

\* C24: no window calculateWindowStatistics returns has '<synthetic>' in
\* modelsUsed; modelsUsed lists every other model of the entries of the
\* window exactly once, in the order of first appearance.
C24_WindowModels ==
  (Done /\ call = "window") =>
    \A k \in DOMAIN result :
      /\ \A m \in DOMAIN result[k].modelsUsed : result[k].modelsUsed[m] # "<synthetic>"
      /\ result[k].modelsUsed = ModelsInOrder(result[k], Len(allEntries))

\* the lines of the files, file after file
LinesOf(fs) == Flatten(Pluck(fs, "lines"))

\* a line that has a timestamp and a usage object, and no identity key
HasUsageObject(line) ==
  /\ line.json /\ line.timestamp # None
  /\ line.message # None /\ line.message[1].usage # None
  /\ (line.message[1].id = None \/ line.requestId = None)

\* a token field of a line, 0 when it is missing
LineTokens(line, f) ==
  LET u == line.message[1].usage[1]
  IN CASE f = "inputTokens" -> OrElse(u.input_tokens, 0)
       [] f = "outputTokens" -> OrElse(u.output_tokens, 0)
       [] f = "cacheCreationTokens" -> OrElse(u.cache_creation_input_tokens, 0)
       [] f = "cacheReadTokens" -> OrElse(u.cache_read_input_tokens, 0)

\* the sum of a token field over the lines that satisfy counted
TokensOfLines(lines, counted, f) ==
  SumSeq([l \in DOMAIN lines |-> IF counted[l] THEN LineTokens(lines[l], f) ELSE 0])

\* every line of the files has a timestamp and a usage object, and nothing
\* is filtered out of the result
OnlyUsageLines ==
  /\ call \in {"daily", "session", "monthly"}
  /\ options.since = None /\ options.until = None
  /\ \A l \in DOMAIN LinesOf(files) : HasUsageObject(LinesOf(files)[l])

\* C25 as stated: a line that has a timestamp and a usage object is accepted
\* whichever of the four token fields are missing, and a missing field
\* counts as 0: the aggregates hold the sums over every such line.
C25_TokenFieldsOptional ==
  (Done /\ OnlyUsageLines) =>
    LET lines == LinesOf(files)
    IN /\ Len(allEntries) = Len(lines)
       /\ \A f \in TokenFields :
            SumSeq(Pluck(result, f))
              = TokensOfLines(lines, [l \in DOMAIN lines |-> TRUE], f)

\* C25, amended: a line that has a timestamp and a usage object is accepted
\* exactly when input_tokens and output_tokens are present; each of the two
\* cache fields may be missing and then counts as 0; a line without
\* input_tokens or output_tokens is dropped and adds nothing.
C25_CacheFieldsOptional ==
  (Done /\ OnlyUsageLines) =>
    LET lines == LinesOf(files)
        accepted == [l \in DOMAIN lines |->
                      LET u == lines[l].message[1].usage[1]
                      IN u.input_tokens # None /\ u.output_tokens # None]
    IN /\ Len(allEntries) = Cardinality({ l \in DOMAIN lines : accepted[l] })
       /\ \A f \in TokenFields :
            SumSeq(Pluck(result, f)) = TokensOfLines(lines, accepted, f)

\* a record without the two cache fields is counted with 0 for them, and a
\* line with the cache fields and without input_tokens is dropped
C25_Witness ==
  /\ Done /\ OnlyUsageLines /\ Len(result) = 1
  /\ \E a, b \in DOMAIN LinesOf(files) :
       /\ LinesOf(files)[a].message[1].usage[1] = Usage(Some(8), Some(4), None, None)
       /\ LinesOf(files)[b].message[1].usage[1] = Usage(None, Some(4), Some(2), Some(1))
  /\ Len(allEntries) = 1
  /\ result[1].inputTokens = 8 /\ result[1].outputTokens = 4
  /\ result[1].cacheCreationTokens = 0 /\ result[1].cacheReadTokens = 0

\* the first entry of a group whose timestamp string no other entry of the
\* group exceeds
FirstGreatest(group) ==
  LET greatest == { i \in DOMAIN group :
                      \A j \in DOMAIN group :
                        ~StrLess(RawTimestamp(group[i].timestamp),
                                 RawTimestamp(group[j].timestamp)) }
  IN group[CHOOSE i \in greatest : \A j \in greatest : i <= j]

\* C26: lastActivity of every SessionUsage is the calendar date of the record
\* whose raw timestamp string is the greatest among the kept records of the
\* session, the first such record in processing order; no kept record of
\* the session has a greater timestamp string.
C26_LastActivity ==
  (Done /\ call = "session") =>
    \A r \in DOMAIN result :
      LET group == GroupOf(result[r])
          latest == FirstGreatest(group)
      IN /\ result[r].lastActivity = formatDate(latest.timestamp, tz)
         /\ result[r].sessionId = latest.sessionId
         /\ \A j \in DOMAIN group :
              ~StrLess(RawTimestamp(latest.timestamp), RawTimestamp(group[j].timestamp))

\* a session of three records whose latest is neither the first nor the
\* last processed: lastActivity is its date
C26_Witness ==
  /\ Done /\ call = "session" /\ Len(result) = 1 /\ Len(allEntries) = 3
  /\ allEntries[1].timestamp = Ts(2024, 1, 10, 36000, "Z")
  /\ allEntries[2].timestamp = Ts(2024, 2, 1, 82800, "")
  /\ allEntries[3].timestamp = Ts(2023, 12, 31, 3600, "Z")
  /\ result[1].lastActivity = <<"2", "0", "2", "4", "-", "0", "2", "-", "0", "1">>

\* C27: two records that both have a message id and a request id get equal
\* keys from createUniqueHash only if their message ids are equal and their
\* request ids are equal; so at the end of a run every valid record that no
\* earlier record shares both ids with is among the entries.
C27_KeysInjective ==
  (Done /\ Len(files) > 0) =>
    LET lines == LinesOf(files)
    IN /\ \A a, b \in DOMAIN lines :
            (/\ SchemaAccepts(lines[a]) /\ SchemaAccepts(lines[b])
             /\ ~Keyless(SchemaOutput(lines[a])) /\ ~Keyless(SchemaOutput(lines[b]))
             /\ createUniqueHash(SchemaOutput(lines[a]))
                  = createUniqueHash(SchemaOutput(lines[b])))
              => SameKey(SchemaOutput(lines[a]), SchemaOutput(lines[b]))
       /\ Len(allEntries) = Len(FirstEncountered(sortFilesByTimestamp(files, tz)))

\* the entry is counted in the aggregate r of this run
CountedIn(e, r) ==
  IF call = "session" THEN e.sessionKey = r.projectPath \o "/" \o r.sessionId
  ELSE e.date = r.date

\* the sum of a token field, or of the cost, over a list of aggregates
TotalOf(list, f) == SumSeq(Pluck(list, IF f = "cost" THEN "totalCost" ELSE f))

\* C28: without a date filter, every valid record that is not a duplicate of
\* an earlier one is counted in exactly one daily entry and in exactly one
\* session entry: the entries are those records, each in one aggregate; the
\* sum of each token field and of totalCost over the result is the sum over
\* the kept records; and the sums of loadDailyUsageData and of
\* loadSessionData for the same files and mode are equal.  No kept record
\* is lost, and none is counted twice.
C28_Conservation ==
  (Done /\ call \in {"daily", "session"} /\ Len(files) > 0
        /\ options.since = None /\ options.until = None) =>
    LET sorted == sortFilesByTimestamp(files, tz)
        kept == FirstEncountered(sorted)
    IN /\ Len(allEntries) = Len(kept)
       /\ \A e \in DOMAIN allEntries :
            Cardinality({ r \in DOMAIN result : CountedIn(allEntries[e], result[r]) }) = 1
       /\ \A f \in TokenFields :
            /\ TotalOf(result, f)
                 = SumSeq([k \in DOMAIN kept |-> TokensOf([data |-> RecordAt(sorted, kept[k])], f)])
            /\ TotalOf(loadDailyUsageData(files, options, tz), f)
                 = TotalOf(loadSessionData(files, options, tz), f)
       /\ TotalOf(result, "cost")
            = SumSeq([k \in DOMAIN kept |->
                       EntryCost(RecordAt(sorted, kept[k]), ModeOf(options)).cost])
       /\ TotalOf(loadDailyUsageData(files, options, tz), "cost")
            = TotalOf(loadSessionData(files, options, tz), "cost")

\* C29: the month of every window of calculateWindowStatistics is the first
\* seven characters of its windowId, whichever entry opened the window; so
\* every window groupWindowsByMonth lists under a monthly summary has a
\* windowId that begins with the month of the summary.
C29_WindowMonth ==
  /\ call \in {"window", "windowMonths"} =>
       \A k \in DOMAIN windowMap :
         windowMap[k].month = substring(windowMap[k].windowId, 0, 7)
  /\ (Done /\ call = "windowMonths") =>
       \A r \in DOMAIN result :
         \A w \in DOMAIN result[r].windows :
           substring(result[r].windows[w].windowId, 0, 7) = result[r].month

\* C30: for every window calculateWindowStatistics returns, duration is not
\* negative and is less than 5 hours (18,000,000 milliseconds), and it is 0
\* for a window of one entry.
C30_DurationBounds ==
  (Done /\ call = "window") =>
    \A k \in DOMAIN result :
      /\ 0 <= result[k].duration
      /\ result[k].duration < 18000000
      /\ result[k].messageCount = 1 => result[k].duration = 0

====
